---- MODULE Spec2Model ----
(***************************************************************************)
(* Model of the Delilah rendering core (src/dla.js, module dla_main):      *)
(* the scene loader, the camera/projection/background setters and the      *)
(* software renderer, with the 2D canvas as a log of the operations it     *)
(* receives.                                                               *)
(*                                                                         *)
(* Numbers.  A JavaScript Number is modelled as an exact rational          *)
(* <<n, d>> in lowest terms with d > 0, or as one of the three non-finite  *)
(* values <<1, 0>> (Infinity), <<-1, 0>> (-Infinity) and <<0, 0>> (NaN).   *)
(* Arithmetic follows IEEE-754 for the non-finite values; rounding of      *)
(* finite results and negative zero are not modelled.  Angles are held in  *)
(* units of a quarter turn (PI is 2), and the trigonometric functions are  *)
(* tabulated on the angles the model uses.                                 *)
(*                                                                         *)
(* 32-bit paint keys are pairs <<hi, lo>> of 16-bit words, ordered         *)
(* lexicographically, which is the numeric order of (hi << 16) | lo.       *)
(***************************************************************************)
EXTENDS Integers, Sequences, FiniteSets, TLC

VARIABLES
  m_bgcolor,  \* background colour [r, g, b]
  m_cam,      \* camera [x, y, z, yaw, pitch, roll]
  m_proj,     \* projection [fov, near, far]
  m_errmsg,   \* <<>> for false, <<reason>> for a stored message
  m_loaded,   \* scene-loaded flag
  m_vtx,      \* vertex buffer, 3 numbers per vertex
  m_tvx,      \* camera-space vertex buffer
  m_pvx,      \* projected vertex buffer
  m_rad,      \* radius buffer (<<>> for null)
  m_scene,    \* scene objects, 5 words per object
  m_paint,    \* paint keys, one <<hi, lo>> per object
  m_pstyle,   \* point styles
  m_lstyle,   \* line styles
  rc,         \* operations the canvas received in the latest renderScene
  calls,      \* drawTri/drawLine/drawSphere/drawPoint calls of that frame
  loop,       \* <<i, k, k_max>> at each iteration of its drawing loop
  mtx,        \* the 16 cells (_m) of a Matrix object
  last        \* the latest public call and how it ended

vars == <<m_bgcolor, m_cam, m_proj, m_errmsg, m_loaded, m_vtx, m_tvx, m_pvx,
          m_rad, m_scene, m_paint, m_pstyle, m_lstyle, rc, calls, loop, mtx,
          last>>

sceneVars == <<m_loaded, m_vtx, m_tvx, m_pvx, m_rad, m_scene, m_paint,
               m_pstyle, m_lstyle>>

viewVars == <<m_bgcolor, m_cam, m_proj>>

----------------------------------------------------------------------------
(* Numbers *)

\* a sequence as the tuple of its elements, each computed once
Tuple(f) == f \o <<>>

Abs(n) == IF n < 0 THEN -n ELSE n

Sign(n) == IF n < 0 THEN -1 ELSE IF n > 0 THEN 1 ELSE 0

RECURSIVE GCD(_, _)
GCD(a, b) == IF b = 0 THEN a ELSE GCD(b, a % b)

\* the rational n/d in canonical form; d = 0 gives Infinity, -Infinity or NaN
Q(n, d) ==
  IF d = 0 THEN <<Sign(n), 0>>
  ELSE LET g == GCD(Abs(n), Abs(d))
           s == IF d < 0 THEN -1 ELSE 1
       IN  <<s * (n \div g), s * (d \div g)>>

R(n) == <<n, 1>>

NaN == <<0, 0>>
Infinity == <<1, 0>>

isFinite(x) == x[2] # 0

IsNaN(x) == x = NaN

RNeg(x) == <<-x[1], x[2]>>

RAdd(x, y) ==
  IF x[2] = 1 /\ y[2] = 1 THEN <<x[1] + y[1], 1>>
  ELSE IF x[2] = 0 /\ y[2] = 0
  THEN IF x[1] = y[1] THEN x ELSE NaN
  ELSE Q(x[1] * y[2] + y[1] * x[2], x[2] * y[2])

RSub(x, y) == RAdd(x, RNeg(y))

RMul(x, y) ==
  IF x[2] = 1 /\ y[2] = 1 THEN <<x[1] * y[1], 1>>
  ELSE Q(x[1] * y[1], x[2] * y[2])

RDiv(x, y) ==
  IF x[2] = 0 /\ y[1] < 0
  THEN Q(-(x[1] * y[2]), 0)
  ELSE Q(x[1] * y[2], x[2] * y[1])

\* the comparison operators: every comparison with NaN is false
RLt(x, y) ==
  IF x[2] = 1 /\ y[2] = 1 THEN x[1] < y[1]
  ELSE /\ ~IsNaN(x)
       /\ ~IsNaN(y)
       /\ IF x[2] = 0 /\ y[2] = 0 THEN x[1] < y[1]
          ELSE x[1] * y[2] < y[1] * x[2]

RGt(x, y) == RLt(y, x)

RLe(x, y) == ~IsNaN(x) /\ ~IsNaN(y) /\ (x = y \/ RLt(x, y))

RGe(x, y) == RLe(y, x)

\* Math.floor, Math.min, Math.max
Floor(x) == IF isFinite(x) THEN R(x[1] \div x[2]) ELSE x

MathMin(x, y) ==
  IF IsNaN(x) \/ IsNaN(y) THEN NaN ELSE IF RLt(y, x) THEN y ELSE x

MathMax(x, y) ==
  IF IsNaN(x) \/ IsNaN(y) THEN NaN ELSE IF RLt(x, y) THEN y ELSE x

Zero == R(0)
One == R(1)

\* Math.PI, in quarter turns
PI == R(2)

\* Math.cos and Math.sin of an angle in quarter turns: exact at the whole
\* quarter turns, and cos ~ 4/5, sin ~ 3/5 at 2/5 of a quarter turn (36
\* degrees); negative angles by symmetry
Cos(r) ==
  LET a == IF r[1] < 0 THEN RNeg(r) ELSE r IN
  CASE a[2] = 1 /\ a[1] % 4 = 0 -> R(1)
    [] a[2] = 1 /\ a[1] % 4 = 2 -> R(-1)
    [] a[2] = 1 /\ a[1] % 2 = 1 -> R(0)
    [] a = Q(2, 5) -> Q(4, 5)

Sin(r) ==
  LET a == IF r[1] < 0 THEN RNeg(r) ELSE r
      v == CASE a[2] = 1 /\ a[1] % 4 = 1 -> R(1)
             [] a[2] = 1 /\ a[1] % 4 = 3 -> R(-1)
             [] a[2] = 1 /\ a[1] % 2 = 0 -> R(0)
             [] a = Q(2, 5) -> Q(3, 5)
  IN  IF r[1] < 0 THEN RNeg(v) ELSE v

\* Math.tan of an angle in quarter turns, at 1/4, 1/2 and 3/4 of a quarter
\* turn: tan(PI/8) ~ 70/169, tan(PI/4) = 1, tan(3*PI/8) ~ 169/70
Tan(r) ==
  CASE r = Q(1, 4) -> Q(70, 169)
    [] r = Q(1, 2) -> R(1)
    [] r = Q(3, 4) -> Q(169, 70)

----------------------------------------------------------------------------
(* JavaScript values as the public functions receive them *)

JNum(x) == [t |-> "number", n |-> x]
JInt(n) == JNum(R(n))
JStr(s) == [t |-> "string", s |-> s]
JArr(a) == [t |-> "array", a |-> a]
JObj(o) == [t |-> "object", o |-> o]
JNull == [t |-> "null"]
JUndefined == [t |-> "undefined"]

\* typeof v
typeof(v) ==
  IF v.t \in {"null", "array", "object"} THEN "object" ELSE v.t

\* v instanceof Array
isArray(v) == v.t = "array"

\* "key" in v, for an object v
has(v, key) == key \in DOMAIN v.o

\* v.key: undefined when the property is absent
get(v, key) == IF key \in DOMAIN v.o THEN v.o[key] ELSE JUndefined

----------------------------------------------------------------------------
(* Matrix class: the 16 cells, row-major *)

Matrix ==
  <<One, Zero, Zero, Zero,  Zero, One, Zero, Zero,
    Zero, Zero, One, Zero,  Zero, Zero, Zero, One>>

\* this._m after post-multiplying by b
_mul(m, b) ==
  Tuple([n \in 1..16 |->
           LET i == (n - 1) \div 4
               j == (n - 1) % 4
           IN  RAdd(RAdd(RAdd(RMul(m[(4 * i) + 1], b[j + 1]),
                              RMul(m[(4 * i) + 2], b[j + 5])),
                         RMul(m[(4 * i) + 3], b[j + 9])),
                    RMul(m[(4 * i) + 4], b[j + 13]))])

checkFinite(m) == \A i \in 1..16 : isFinite(m[i])

\* non-finite coordinates are replaced by zero; the variant keeps them
Scrub_Keep(v) == v

\* non-finite coordinates are replaced by zero
Scrub(v) == IF isFinite(v) THEN v ELSE Zero

\* the homogeneous point (a, b, c, d) brought back to three coordinates
Dehomogenize(a, b, c, d) ==
  IF d = Zero THEN <<Zero, Zero, Zero>>
  ELSE IF d # One
       THEN <<Scrub(RDiv(a, d)), Scrub(RDiv(b, d)), Scrub(RDiv(c, d))>>
       ELSE <<Scrub(a), Scrub(b), Scrub(c)>>

\* the array pa after process(pa)
process(m, pa) ==
  Dehomogenize(
    RAdd(RAdd(RAdd(RMul(pa[1], m[1]), RMul(pa[2], m[5])),
              RMul(pa[3], m[9])), m[13]),
    RAdd(RAdd(RAdd(RMul(pa[1], m[2]), RMul(pa[2], m[6])),
              RMul(pa[3], m[10])), m[14]),
    RAdd(RAdd(RAdd(RMul(pa[1], m[3]), RMul(pa[2], m[7])),
              RMul(pa[3], m[11])), m[15]),
    RAdd(RAdd(RAdd(RMul(pa[1], m[4]), RMul(pa[2], m[8])),
              RMul(pa[3], m[12])), m[16]))

\* the variant puts 2 in the last cell of the translation matrix
translate_Weighted(m, tx, ty, tz) ==
  _mul(m, <<One, Zero, Zero, Zero,  Zero, One, Zero, Zero,
            Zero, Zero, One, Zero,  tx, ty, tz, R(2)>>)

translate(m, tx, ty, tz) ==
  _mul(m, <<One, Zero, Zero, Zero,  Zero, One, Zero, Zero,
            Zero, Zero, One, Zero,  tx, ty, tz, One>>)

scale(m, sx, sy, sz) ==
  _mul(m, <<sx, Zero, Zero, Zero,  Zero, sy, Zero, Zero,
            Zero, Zero, sz, Zero,  Zero, Zero, Zero, One>>)

project(m, d) ==
  _mul(m, <<One, Zero, Zero, Zero,  Zero, One, Zero, Zero,
            Zero, Zero, One, RNeg(RDiv(One, d)),  Zero, Zero, Zero, One>>)

rotateX(m, r) ==
  _mul(m, <<One, Zero, Zero, Zero,
            Zero, Cos(r), Sin(r), Zero,
            Zero, RNeg(Sin(r)), Cos(r), Zero,
            Zero, Zero, Zero, One>>)

rotateY(m, r) ==
  _mul(m, <<Cos(r), Zero, RNeg(Sin(r)), Zero,
            Zero, One, Zero, Zero,
            Sin(r), Zero, Cos(r), Zero,
            Zero, Zero, Zero, One>>)

rotateZ(m, r) ==
  _mul(m, <<Cos(r), Sin(r), Zero, Zero,
            RNeg(Sin(r)), Cos(r), Zero, Zero,
            Zero, Zero, One, Zero,
            Zero, Zero, Zero, One>>)

----------------------------------------------------------------------------
(* Constants of the module *)

VALID_SHAPES == <<"c", "s", "m", "u", "d", "l", "r", "p", "x">>

FILL_SHAPES == <<"c", "s", "m", "u", "d", "l", "r">>

\* String.prototype.indexOf for a one-character needle: 0-based, or -1
indexOf(chars, a) ==
  IF \E i \in 1..Len(chars) : chars[i] = a
  THEN (CHOOSE i \in 1..Len(chars) : chars[i] = a) - 1
  ELSE -1

\* element k (0-based) of an array or buffer
At(buf, k) == buf[k + 1]

----------------------------------------------------------------------------
(* loadScene: validation.  Each stage yields an outcome: "ok" with the value *)
(* built, "syntax" with the reason handed to syntax(), or "throw" for an     *)
(* exception that is not a syntax error.                                    *)

Ok(v) == [st |-> "ok", val |-> v]

Syntax(reason) == [st |-> "syntax", msg |-> reason]

Throw(ex) == [st |-> "throw", ex |-> ex]

\* the outcome of the first loop iteration 0..n-1 that does not complete, or
\* Ok of the values built by all of them
Loop(n, Body(_)) ==
  IF \E i \in 0..(n - 1) : Body(i).st # "ok"
  THEN Body(CHOOSE i \in 0..(n - 1) :
              /\ Body(i).st # "ok"
              /\ \A j \in 0..(i - 1) : Body(j).st = "ok")
  ELSE Ok(Tuple([i \in 1..n |-> Body(i - 1).val]))

\* the flat buffer holding the w-element tuples of ss one after the other
Flat(ss, w) ==
  Tuple([k \in 1..(Len(ss) * w) |->
           ss[((k - 1) \div w) + 1][((k - 1) % w) + 1]])

\* JSON.parse on the file text, and the top-level checks
ParseTop(str) ==
  IF str.parse = <<>> THEN Syntax("Not a valid JSON file") ELSE
  LET data == str.parse[1] IN
  IF data.t \in {"null", "undefined"} THEN Syntax("Not a valid JSON file") ELSE
  IF typeof(data) # "object" \/ isArray(data)
    THEN Syntax("Top-level entity must be object") ELSE
  Ok(data)

\* the five array members and their counts
ParseCounts(data) ==
  IF has(data, "pstyle") /\ ~isArray(get(data, "pstyle"))
    THEN Syntax("pstyle property must be array") ELSE
  IF has(data, "lstyle") /\ ~isArray(get(data, "lstyle"))
    THEN Syntax("lstyle property must be array") ELSE
  IF has(data, "radius") /\ ~isArray(get(data, "radius"))
    THEN Syntax("radius property must be array") ELSE
  IF ~has(data, "vertex") THEN Syntax("Missing vertex property") ELSE
  IF ~isArray(get(data, "vertex"))
    THEN Syntax("vertex property must be array") ELSE
  IF Len(get(data, "vertex").a) < 1
    THEN Syntax("Vertex buffer may not be empty") ELSE
  IF Len(get(data, "vertex").a) % 3 # 0
    THEN Syntax("Vertex buffer array must be a multiple of 3") ELSE
  IF ~has(data, "scene") THEN Syntax("Missing scene property") ELSE
  IF ~isArray(get(data, "scene"))
    THEN Syntax("scene property must be array") ELSE
  IF Len(get(data, "scene").a) < 1
    THEN Syntax("Scene graph may not be empty") ELSE
  IF Len(get(data, "scene").a) % 5 # 0
    THEN Syntax("Scene graph array be a multiple of 5") ELSE
  LET pscount == IF has(data, "pstyle") THEN Len(get(data, "pstyle").a) ELSE 0
      lscount == IF has(data, "lstyle") THEN Len(get(data, "lstyle").a) ELSE 0
      rcount  == IF has(data, "radius") THEN Len(get(data, "radius").a) ELSE 0
      vcount  == Len(get(data, "vertex").a) \div 3
      scount  == Len(get(data, "scene").a) \div 5
  IN
  IF pscount > 65535 THEN Syntax("At most 65535 point styles are allowed") ELSE
  IF lscount > 65535 THEN Syntax("At most 65535 line styles are allowed") ELSE
  IF rcount > 65535
    THEN Syntax("At most 65535 radius definitions are allowed") ELSE
  IF vcount > 65535
    THEN Syntax("At most 65535 vertex definitions are allowed") ELSE
  IF scount > 65535 THEN Syntax("At most 65535 scene objects are allowed") ELSE
  Ok([pscount |-> pscount, lscount |-> lscount, rcount |-> rcount,
      vcount |-> vcount, scount |-> scount])

\* one iteration of the vertex loop: the three numbers stored for vertex i
ParseVertex(data, i) ==
  LET a == At(get(data, "vertex").a, i * 3)
      b == At(get(data, "vertex").a, (i * 3) + 1)
      c == At(get(data, "vertex").a, (i * 3) + 2)
  IN
  IF typeof(a) # "number" \/ typeof(b) # "number" \/ typeof(c) # "number"
    THEN Syntax("Vertex buffer may only contain numbers") ELSE
  IF ~isFinite(a.n) \/ ~isFinite(b.n) \/ ~isFinite(c.n)
    THEN Syntax("Vertex buffer may only contain finite values") ELSE
  Ok(<<a.n, b.n, c.n>>)

\* the triangle branch of the scene loop
CheckTriangle(n, b, c, x, y) ==
  IF b >= n.vcount \/ c >= n.vcount
    THEN Syntax("Triangles must have three valid vertices") ELSE
  IF x >= 32768 THEN Syntax("Triangles must have 15-bit fill color") ELSE
  IF y >= 32768 THEN Syntax("Triangles must have 15-bit style") ELSE
  LET ii == y \div 1024
      ij == (y \div 32) % 32
      ik == y % 32
  IN
  IF ii > 0 /\ ii > n.lscount
    THEN Syntax("Selectors must reference line style or none") ELSE
  IF ij > 0 /\ ij > n.lscount
    THEN Syntax("Selectors must reference line style or none") ELSE
  IF ik > 0 /\ ik > n.lscount
    THEN Syntax("Selectors must reference line style or none") ELSE
  Ok(<<x, y>>)

\* the sphere branch of the scene loop; the variant has no test for a
\* sphere with neither fill nor outline
CheckSphere_AnyFill(n, c, x, y) ==
  IF c >= n.rcount THEN Syntax("Spheres must have valid radius indices") ELSE
  IF x >= 32768 /\ x # 65535
    THEN Syntax("Spheres must have 15-bit fill or be transparent") ELSE
  IF y >= n.lscount /\ y # 65535
    THEN Syntax("Spheres must reference line style or transparent") ELSE
  Ok(<<x, y>>)

CheckSphere(n, c, x, y) ==
  IF c >= n.rcount THEN Syntax("Spheres must have valid radius indices") ELSE
  IF x >= 32768 /\ x # 65535
    THEN Syntax("Spheres must have 15-bit fill or be transparent") ELSE
  IF y >= n.lscount /\ y # 65535
    THEN Syntax("Spheres must reference line style or transparent") ELSE
  IF x = 65535 /\ y = 65535
    THEN Syntax("Spheres may not be fully transparent") ELSE
  Ok(<<x, y>>)

\* the line branch of the scene loop; the variant lets the style index reach
\* the number of line styles
CheckLine_OffByOne(n, b, y) ==
  IF b >= n.vcount THEN Syntax("Lines must have two valid vertices") ELSE
  IF y > n.lscount THEN Syntax("Lines must reference defined line style") ELSE
  Ok(<<0, y>>)

CheckLine(n, b, y) ==
  IF b >= n.vcount THEN Syntax("Lines must have two valid vertices") ELSE
  IF y >= n.lscount THEN Syntax("Lines must reference defined line style") ELSE
  Ok(<<0, y>>)

\* the point branch of the scene loop
CheckPoint(n, y) ==
  IF y >= n.pscount THEN Syntax("Points must reference defined point style")
  ELSE Ok(<<0, y>>)

\* one iteration of the scene loop: the five words stored for object i
ParseObject(data, n, i) ==
  LET ja == At(get(data, "scene").a, i * 5)
      jb == At(get(data, "scene").a, (i * 5) + 1)
      jc == At(get(data, "scene").a, (i * 5) + 2)
      jx == At(get(data, "scene").a, (i * 5) + 3)
      jy == At(get(data, "scene").a, (i * 5) + 4)
  IN
  IF \E v \in {ja, jb, jc, jx, jy} : typeof(v) # "number"
    THEN Syntax("Scene buffer may only contain numbers") ELSE
  LET fa == Floor(ja.n)
      fb == Floor(jb.n)
      fc == Floor(jc.n)
      fx == Floor(jx.n)
      fy == Floor(jy.n)
  IN
  IF \E v \in {fa, fb, fc, fx, fy} : ~isFinite(v)
    THEN Syntax("Scene buffer may only contain finite integers") ELSE
  IF \E v \in {fa, fb, fc, fx, fy} : v[1] < 0 \/ v[1] > 65535
    THEN Syntax("Scene buffer may only contain 16-bit integers") ELSE
  LET a == fa[1]
      b == fb[1]
      c == fc[1]
      x == fx[1]
      y == fy[1]
  IN
  IF a >= n.vcount THEN Syntax("First vertex must always be valid index") ELSE
  LET rest == IF b # 65535 /\ c # 65535 THEN CheckTriangle(n, b, c, x, y)
              ELSE IF b = 65535 /\ c # 65535 THEN CheckSphere(n, c, x, y)
              ELSE IF b # 65535 /\ c = 65535 THEN CheckLine(n, b, y)
              ELSE CheckPoint(n, y)
  IN
  IF rest.st # "ok" THEN rest
  ELSE Ok(<<a, b, c, rest.val[1], rest.val[2]>>)

\* one iteration of the radius loop
ParseRadius(data, i) ==
  LET a == At(get(data, "radius").a, i) IN
  IF typeof(a) # "number" THEN Syntax("Radii must be numbers") ELSE
  IF ~isFinite(a.n) THEN Syntax("Radii must be finite") ELSE
  IF ~RGt(a.n, Zero) THEN Syntax("Radii must be greater than zero") ELSE
  Ok(a.n)

\* the fill stage of the point-style loop: the fill word kept (0 when unused);
\* the variant ignores a fill given for a shape that is not filled
ParseFill_Ignored(o, a) ==
  IF indexOf(FILL_SHAPES, a) >= 0
  THEN
    IF ~has(o, "fill")
      THEN Syntax("Point style must have fill for filled shapes") ELSE
    IF typeof(get(o, "fill")) # "number"
      THEN Syntax("Point style fill must be number") ELSE
    LET x == Floor(get(o, "fill").n) IN
    IF ~isFinite(x) THEN Syntax("Point style fill must be finite integer") ELSE
    IF (x[1] < 0 \/ x[1] > 32767) /\ x[1] # 65535
      THEN Syntax("Point style fill must be 15-bit or 65535") ELSE
    Ok(x[1])
  ELSE Ok(0)

ParseFill(o, a) ==
  IF indexOf(FILL_SHAPES, a) >= 0
  THEN
    IF ~has(o, "fill")
      THEN Syntax("Point style must have fill for filled shapes") ELSE
    IF typeof(get(o, "fill")) # "number"
      THEN Syntax("Point style fill must be number") ELSE
    LET x == Floor(get(o, "fill").n) IN
    IF ~isFinite(x) THEN Syntax("Point style fill must be finite integer") ELSE
    IF (x[1] < 0 \/ x[1] > 32767) /\ x[1] # 65535
      THEN Syntax("Point style fill must be 15-bit or 65535") ELSE
    Ok(x[1])
  ELSE
    IF has(o, "fill")
      THEN Syntax("Point style may not have fill for unfilled shapes")
    ELSE Ok(0)

\* the property the ink stage reads its value from
InkSource(o) == get(o, "fill")

\* the ink stage of the point-style loop: the ink word kept (0 when unused)
ParseInk(o, c) ==
  IF RGt(c, Zero)
  THEN
    IF ~has(o, "ink") THEN Syntax("Point style with stroke must have ink") ELSE
    IF typeof(InkSource(o)) # "number"
      THEN Syntax("Point style ink must be number") ELSE
    LET y == Floor(InkSource(o).n) IN
    IF ~isFinite(y) THEN Syntax("Point style ink must be finite integer") ELSE
    IF y[1] < 0 \/ y[1] > 32767 THEN Syntax("Point style ink must be 15-bit")
    ELSE Ok(y[1])
  ELSE
    IF has(o, "ink")
      THEN Syntax("Point style with zero stroke may not have ink")
    ELSE Ok(0)

\* the style object pushed to the point styles array; the variant keeps the
\* ink in place of the fill when there is a stroke
NewPointStyle_InkOnly(a, b, c, x, y) ==
  IF RGt(c, Zero)
  THEN [shape |-> a, size |-> b, stroke |-> c, ink |-> y]
  ELSE IF indexOf(FILL_SHAPES, a) >= 0
       THEN [shape |-> a, size |-> b, stroke |-> c, fill |-> x]
       ELSE [shape |-> a, size |-> b, stroke |-> c]

NewPointStyle(a, b, c, x, y) ==
  IF indexOf(FILL_SHAPES, a) >= 0
  THEN IF RGt(c, Zero)
       THEN [shape |-> a, size |-> b, stroke |-> c, fill |-> x, ink |-> y]
       ELSE [shape |-> a, size |-> b, stroke |-> c, fill |-> x]
  ELSE IF RGt(c, Zero)
       THEN [shape |-> a, size |-> b, stroke |-> c, ink |-> y]
       ELSE [shape |-> a, size |-> b, stroke |-> c]

\* one iteration of the point-style loop
ParsePointStyle(data, i) ==
  LET o == At(get(data, "pstyle").a, i) IN
  IF typeof(o) # "object" \/ isArray(o)
    THEN Syntax("Point styles must be objects") ELSE
  IF o.t = "null" THEN Throw("TypeError") ELSE
  IF ~has(o, "shape")
    THEN Syntax("All point styles must have shape property") ELSE
  IF ~has(o, "size")
    THEN Syntax("All point styles must have size property") ELSE
  IF ~has(o, "stroke")
    THEN Syntax("All point styles must have stroke property") ELSE
  LET a == get(o, "shape")
      b == get(o, "size")
      c == get(o, "stroke")
  IN
  IF typeof(a) # "string"
    THEN Syntax("Point style shape code must be string") ELSE
  IF Len(a.s) # 1
    THEN Syntax("Point style shape code must be one character") ELSE
  IF indexOf(VALID_SHAPES, a.s) < 0
    THEN Syntax("Invalid shape code '" \o a.s \o "' in point style") ELSE
  IF typeof(b) # "number" THEN Syntax("Point style size must be number") ELSE
  IF ~isFinite(b.n) THEN Syntax("Point style size must be finite") ELSE
  IF ~RGt(b.n, Zero)
    THEN Syntax("Point style size must be greater than zero") ELSE
  IF typeof(c) # "number"
    THEN Syntax("Point style stroke must be number") ELSE
  IF ~isFinite(c.n) THEN Syntax("Point style stroke must be finite") ELSE
  IF ~RGe(c.n, Zero)
    THEN Syntax("Point style stroke must be zero or greater") ELSE
  LET x == ParseFill(o, a.s) IN
  IF x.st # "ok" THEN x ELSE
  LET y == ParseInk(o, c.n) IN
  IF y.st # "ok" THEN y ELSE
  Ok(NewPointStyle(a.s, b.n, c.n, x.val, y.val))

\* one iteration of the line-style loop
ParseLineStyle(data, i) ==
  LET o == At(get(data, "lstyle").a, i) IN
  IF typeof(o) # "object" \/ isArray(o)
    THEN Syntax("Line styles must be objects") ELSE
  IF o.t = "null" THEN Throw("TypeError") ELSE
  IF ~has(o, "width")
    THEN Syntax("All line styles must have width property") ELSE
  IF ~has(o, "color")
    THEN Syntax("All line styles must have color property") ELSE
  LET a == get(o, "width")
      b == get(o, "color")
  IN
  IF typeof(a) # "number" THEN Syntax("Line style width must be number") ELSE
  IF typeof(b) # "number" THEN Syntax("Line style color must be number") ELSE
  IF ~isFinite(a.n) THEN Syntax("Line style width must be finite") ELSE
  IF ~RGt(a.n, Zero)
    THEN Syntax("Line style width must be greater than zero") ELSE
  LET fb == Floor(b.n) IN
  IF ~isFinite(fb)
    THEN Syntax("Line style color must be finite integer") ELSE
  IF fb[1] < 0 \/ fb[1] > 32767
    THEN Syntax("Line style color must be 15-bit HiColor") ELSE
  Ok([width |-> a.n, color |-> fb[1]])

\* the body of loadScene's try block: the outcome, with the tables built when
\* every check passes, in the order the code makes its checks
ParseScene(str) ==
  LET top == ParseTop(str) IN
  IF top.st # "ok" THEN top ELSE
  LET data == top.val
      cnt  == ParseCounts(data)
  IN
  IF cnt.st # "ok" THEN cnt ELSE
  LET n   == cnt.val
      vtx == Loop(n.vcount, LAMBDA i : ParseVertex(data, i))
  IN
  IF vtx.st # "ok" THEN vtx ELSE
  LET scene == Loop(n.scount, LAMBDA i : ParseObject(data, n, i)) IN
  IF scene.st # "ok" THEN scene ELSE
  LET rbuf == Loop(n.rcount, LAMBDA i : ParseRadius(data, i)) IN
  IF rbuf.st # "ok" THEN rbuf ELSE
  LET ps == Loop(n.pscount, LAMBDA i : ParsePointStyle(data, i)) IN
  IF ps.st # "ok" THEN ps ELSE
  LET ls == Loop(n.lscount, LAMBDA i : ParseLineStyle(data, i)) IN
  IF ls.st # "ok" THEN ls ELSE
  Ok([vtx |-> Flat(vtx.val, 3), scene |-> Flat(scene.val, 5),
      rbuf |-> rbuf.val, ps |-> ps.val, ls |-> ls.val, scount |-> n.scount])

----------------------------------------------------------------------------
(* loadScene, loadError, loadDefaultScene *)

\* fault(func_name, loc): the exception thrown
fault(func_name, loc) == "dla_main:" \o func_name \o ":" \o ToString(loc)

\* syntax(reason): the message stored when the exception is thrown
syntax(errmsg, reason) == IF errmsg = <<>> THEN <<reason>> ELSE errmsg

\* loadScene begins by clearing the error message
ClearError_Keep(errmsg) == errmsg

ClearError(errmsg) == <<>>

\* the scene tables as loadScene leaves them for the outcome of its try block
SceneAfter_Partial(out) ==
  IF out.st = "ok"
  THEN [loaded |-> TRUE, vtx |-> out.val.vtx,
        tvx |-> Tuple([i \in 1..Len(out.val.vtx) |-> Zero]),
        pvx |-> Tuple([i \in 1..Len(out.val.vtx) |-> Zero]),
        rad |-> out.val.rbuf, scene |-> out.val.scene,
        paint |-> Tuple([i \in 1..out.val.scount |-> <<0, 0>>]),
        ps |-> out.val.ps, ls |-> out.val.ls]
  ELSE [loaded |-> m_loaded, vtx |-> m_vtx, tvx |-> m_tvx, pvx |-> m_pvx,
        rad |-> m_rad, scene |-> m_scene, paint |-> m_paint,
        ps |-> <<>>, ls |-> <<>>]

\* the variant sizes the two scratch vertex buffers by the number of vertices
SceneAfter_VertexCount(out) ==
  IF out.st = "ok"
  THEN [loaded |-> TRUE, vtx |-> out.val.vtx,
        tvx |-> Tuple([i \in 1..(Len(out.val.vtx) \div 3) |-> Zero]),
        pvx |-> Tuple([i \in 1..(Len(out.val.vtx) \div 3) |-> Zero]),
        rad |-> out.val.rbuf, scene |-> out.val.scene,
        paint |-> Tuple([i \in 1..out.val.scount |-> <<0, 0>>]),
        ps |-> out.val.ps, ls |-> out.val.ls]
  ELSE [loaded |-> m_loaded, vtx |-> m_vtx, tvx |-> m_tvx, pvx |-> m_pvx,
        rad |-> m_rad, scene |-> m_scene, paint |-> m_paint,
        ps |-> m_pstyle, ls |-> m_lstyle]

SceneAfter(out) ==
  IF out.st = "ok"
  THEN [loaded |-> TRUE, vtx |-> out.val.vtx,
        tvx |-> Tuple([i \in 1..Len(out.val.vtx) |-> Zero]),
        pvx |-> Tuple([i \in 1..Len(out.val.vtx) |-> Zero]),
        rad |-> out.val.rbuf, scene |-> out.val.scene,
        paint |-> Tuple([i \in 1..out.val.scount |-> <<0, 0>>]),
        ps |-> out.val.ps, ls |-> out.val.ls]
  ELSE [loaded |-> m_loaded, vtx |-> m_vtx, tvx |-> m_tvx, pvx |-> m_pvx,
        rad |-> m_rad, scene |-> m_scene, paint |-> m_paint,
        ps |-> m_pstyle, ls |-> m_lstyle]

\* how a public call ended: "true"/"false"/"return", or "fault"/"throw" with
\* the exception in reason; for a false loadScene reason is the argument of
\* the syntax() call that ended it
Ended(op, end, reason, args) ==
  [op |-> op, end |-> end, reason |-> reason, args |-> args]

\* the arguments of a call: loadDefaultScene has none
LoadArgs(str, op) == IF op = "loadScene" THEN <<str>> ELSE <<>>

loadSceneBody(str, op) ==
  IF typeof(str) # "string"
  THEN /\ last' = Ended(op, "fault", fault("loadScene", 100), LoadArgs(str, op))
       /\ UNCHANGED <<m_errmsg, sceneVars>>
  ELSE \E out \in {ParseScene(str)} : \E new \in {SceneAfter(out)} :
           /\ m_errmsg' = IF out.st = "syntax"
                          THEN syntax(ClearError(m_errmsg), out.msg)
                          ELSE ClearError(m_errmsg)
           /\ m_loaded' = new.loaded
           /\ m_vtx' = new.vtx
           /\ m_tvx' = new.tvx
           /\ m_pvx' = new.pvx
           /\ m_rad' = new.rad
           /\ m_scene' = new.scene
           /\ m_paint' = new.paint
           /\ m_pstyle' = new.ps
           /\ m_lstyle' = new.ls
           /\ last' = CASE out.st = "ok" -> Ended(op, "true", "", LoadArgs(str, op))
                        [] out.st = "syntax" ->
                             IF op = "loadScene"
                             THEN Ended(op, "false", out.msg, LoadArgs(str, op))
                             ELSE Ended(op, "fault",
                                        fault("loadDefaultScene", 100), LoadArgs(str, op))
                        [] out.st = "throw" -> Ended(op, "throw", out.ex, LoadArgs(str, op))

loadScene(str) ==
  /\ loadSceneBody(str, "loadScene")
  /\ UNCHANGED <<viewVars, rc, calls, loop, mtx>>

loadError == IF m_errmsg = <<>> THEN "No error" ELSE m_errmsg[1]

\* an array of numbers from a sequence of integers
Nums(seq) == JArr(Tuple([i \in 1..Len(seq) |-> JInt(seq[i])]))

\* a file text by the value JSON.parse gives for it (<<>>: not valid JSON)
JText(v) == [t |-> "string", parse |-> <<v>>]

JBadText == [t |-> "string", parse |-> <<>>]

\* the grid and the Y axis of the default scene
DefaultVertices ==
  Flat(Tuple([i \in 1..121 |->
               <<(((i - 1) \div 11) * 5) - 25, 0, (((i - 1) % 11) * 5) - 25>>]),
       3)
    \o <<0, 25, 0, 0, -25, 0>>

DefaultObjects ==
  Flat([i \in 1..120 |->
         <<(IF i <= 60 THEN i - 1 ELSE i), 65535, 65535, 0, 0>>], 5)
    \o <<121, 122, 65535, 0, 0>>

DefaultSceneText ==
  JText(JObj([vertex |-> Nums(DefaultVertices),
              scene  |-> Nums(DefaultObjects),
              pstyle |-> JArr(<<JObj([shape |-> JStr("c"), size |-> JInt(3),
                                      stroke |-> JInt(0), fill |-> JInt(31)])>>),
              lstyle |-> JArr(<<JObj([width |-> JInt(2),
                                      color |-> JInt(992)])>>)]))

loadDefaultScene ==
  /\ loadSceneBody(DefaultSceneText, "loadDefaultScene")
  /\ UNCHANGED <<viewVars, rc, calls, loop, mtx>>

----------------------------------------------------------------------------
(* Background colour, projection and camera *)

getBGColor == <<m_bgcolor[1], m_bgcolor[2], m_bgcolor[3]>>

\* the fault location setBGColor stops at, 0 when every check passes
BGColorFault(r, g, b) ==
  IF typeof(r) # "number" \/ typeof(g) # "number" \/ typeof(b) # "number"
    THEN 100 ELSE
  IF ~isFinite(Floor(r.n)) \/ ~isFinite(Floor(g.n)) \/ ~isFinite(Floor(b.n))
    THEN 110 ELSE
  IF ~(RGe(Floor(r.n), Zero) /\ RLe(Floor(r.n), R(255))) THEN 120 ELSE
  IF ~(RGe(Floor(g.n), Zero) /\ RLe(Floor(g.n), R(255))) THEN 121 ELSE
  IF ~(RGe(Floor(b.n), Zero) /\ RLe(Floor(b.n), R(255))) THEN 122 ELSE 0

setBGColor(r, g, b) ==
  /\ IF BGColorFault(r, g, b) # 0
     THEN /\ last' = Ended("setBGColor", "fault",
                           fault("setBGColor", BGColorFault(r, g, b)),
                           <<r, g, b>>)
          /\ UNCHANGED m_bgcolor
     ELSE /\ m_bgcolor' = <<Floor(r.n), Floor(g.n), Floor(b.n)>>
          /\ last' = Ended("setBGColor", "return", "", <<r, g, b>>)
  /\ UNCHANGED <<m_cam, m_proj, m_errmsg, sceneVars, rc, calls, loop, mtx>>

getProjection == <<m_proj[1], m_proj[2], m_proj[3]>>

\* 1 / Math.tan(fov * Math.PI / 2)
ProjD(fov) == RDiv(One, Tan(RDiv(RMul(fov, PI), R(2))))

\* the range test on near; the permissive variant lets near reach the
\* projection point
NearInRange_Inclusive(fov, near) == RLe(near, ProjD(fov))

NearInRange(fov, near) == RLt(near, ProjD(fov))

\* the fault location setProjection stops at, 0 when every check passes
ProjectionFault(fov, near, far) ==
  IF typeof(fov) # "number" \/ typeof(near) # "number"
       \/ typeof(far) # "number"
    THEN 100 ELSE
  IF ~isFinite(fov.n) \/ ~isFinite(near.n) \/ ~isFinite(far.n) THEN 110 ELSE
  IF ~(RGt(fov.n, Zero) /\ RLt(fov.n, One)) THEN 120 ELSE
  IF ~NearInRange(fov.n, near.n) THEN 130 ELSE
  IF ~RLt(far.n, near.n) THEN 140 ELSE 0

setProjection(fov, near, far) ==
  /\ IF ProjectionFault(fov, near, far) # 0
     THEN /\ last' = Ended("setProjection", "fault",
                           fault("setProjection",
                                 ProjectionFault(fov, near, far)),
                           <<fov, near, far>>)
          /\ UNCHANGED m_proj
     ELSE /\ m_proj' = <<fov.n, near.n, far.n>>
          /\ last' = Ended("setProjection", "return", "", <<fov, near, far>>)
  /\ UNCHANGED <<m_bgcolor, m_cam, m_errmsg, sceneVars, rc, calls, loop, mtx>>

getCamera ==
  <<m_cam[1], m_cam[2], m_cam[3], m_cam[4], m_cam[5], m_cam[6]>>

\* the fault location setCamera stops at, 0 when every check passes; the
\* variant lets yaw and roll reach 1
CameraFault_Inclusive(x, y, z, yaw, pitch, roll) ==
  IF \E v \in {x, y, z, yaw, pitch, roll} : typeof(v) # "number"
    THEN 100 ELSE
  IF \E v \in {x, y, z, yaw, pitch, roll} : ~isFinite(v.n) THEN 110 ELSE
  IF \/ ~(RGe(yaw.n, Zero) /\ RLe(yaw.n, One))
     \/ ~(RGe(pitch.n, R(-1)) /\ RLe(pitch.n, One))
     \/ ~(RGe(roll.n, Zero) /\ RLe(roll.n, One))
    THEN 120 ELSE 0

CameraFault(x, y, z, yaw, pitch, roll) ==
  IF \E v \in {x, y, z, yaw, pitch, roll} : typeof(v) # "number"
    THEN 100 ELSE
  IF \E v \in {x, y, z, yaw, pitch, roll} : ~isFinite(v.n) THEN 110 ELSE
  IF \/ ~(RGe(yaw.n, Zero) /\ RLt(yaw.n, One))
     \/ ~(RGe(pitch.n, R(-1)) /\ RLe(pitch.n, One))
     \/ ~(RGe(roll.n, Zero) /\ RLt(roll.n, One))
    THEN 120 ELSE 0

setCamera(x, y, z, yaw, pitch, roll) ==
  /\ IF CameraFault(x, y, z, yaw, pitch, roll) # 0
     THEN /\ last' = Ended("setCamera", "fault",
                           fault("setCamera",
                                 CameraFault(x, y, z, yaw, pitch, roll)),
                           <<x, y, z, yaw, pitch, roll>>)
          /\ UNCHANGED m_cam
     ELSE /\ m_cam' = <<x.n, y.n, z.n, yaw.n, pitch.n, roll.n>>
          /\ last' = Ended("setCamera", "return", "",
                           <<x, y, z, yaw, pitch, roll>>)
  /\ UNCHANGED <<m_bgcolor, m_proj, m_errmsg, sceneVars, rc, calls, loop, mtx>>

\* the array a getter hands to the host, with the module array whose storage
\* it shares ("" for a new array); the variant hands out the module array
Returned_Shared(name, a) == [shares |-> name, a |-> a]

Returned(name, a) == [shares |-> "", a |-> a]

\* calls of the getters
getCameraCall ==
  /\ last' = Ended("getCamera", "return", "",
                   <<Returned("m_cam", getCamera)>>)
  /\ UNCHANGED <<viewVars, m_errmsg, sceneVars, rc, calls, loop, mtx>>

getProjectionCall ==
  /\ last' = Ended("getProjection", "return", "",
                   <<Returned("m_proj", getProjection)>>)
  /\ UNCHANGED <<viewVars, m_errmsg, sceneVars, rc, calls, loop, mtx>>

getBGColorCall ==
  /\ last' = Ended("getBGColor", "return", "",
                   <<Returned("m_bgcolor", getBGColor)>>)
  /\ UNCHANGED <<viewVars, m_errmsg, sceneVars, rc, calls, loop, mtx>>

\* the host assigns v to element k (from 1) of the array the latest getter
\* returned; the assignment reaches whatever shares the array's storage
Modify(k, v) ==
  /\ last.op \in {"getCamera", "getProjection", "getBGColor", "modify"}
  /\ k \in 1..Len(last.args[1].a)
  /\ \E h \in {[last.args[1] EXCEPT !.a[k] = v]} :
       /\ last' = Ended("modify", "return", "", <<h>>)
       /\ m_cam' = IF h.shares = "m_cam" THEN h.a ELSE m_cam
       /\ m_proj' = IF h.shares = "m_proj" THEN h.a ELSE m_proj
       /\ m_bgcolor' = IF h.shares = "m_bgcolor" THEN h.a ELSE m_bgcolor
  /\ UNCHANGED <<m_errmsg, sceneVars, rc, calls, loop, mtx>>

----------------------------------------------------------------------------
(* Drawing functions: the operations each sends to the rendering context *)

\* a | b on non-negative integers
RECURSIVE BitOr(_, _)
BitOr(a, b) ==
  IF a = 0 THEN b
  ELSE IF b = 0 THEN a
  ELSE (2 * BitOr(a \div 2, b \div 2))
         + (IF a % 2 = 1 \/ b % 2 = 1 THEN 1 ELSE 0)

\* a 5-bit channel expanded to 8 bits by duplicating its top three bits; the
\* variant fills the low bits with zeros
Expand_ZeroFill(c) == c * 8

Expand(c) == BitOr(c * 8, c \div 4)

\* n.toString(10) of a number
toString(x) ==
  IF x[2] = 1 THEN ToString(x[1])
  ELSE IF x[2] = 0
       THEN (IF x[1] > 0 THEN "Infinity"
             ELSE IF x[1] < 0 THEN "-Infinity" ELSE "NaN")
       ELSE ToString(x[1]) \o "/" \o ToString(x[2])

\* the style string of three 8-bit channels
Rgb(r, g, b) ==
  "rgb(" \o ToString(r) \o ", " \o ToString(g) \o ", " \o ToString(b) \o ")"

\* the style string of a 15-bit HiColor word
HiColor(fc) ==
  Rgb(Expand(fc \div 1024), Expand((fc \div 32) % 32), Expand(fc % 32))

\* canvas operations; fill and stroke carry the styles in force
Op(name, a) == [op |-> name, a |-> a]

FillOp(style) == [op |-> "fill", fillStyle |-> style]

StrokeOp(style, width) ==
  [op |-> "stroke", strokeStyle |-> style, lineWidth |-> width]

\* one edge of a triangle, stroked with line style s - 1 when s > 0
Edge(s, xa, ya, xb, yb) ==
  IF s > 0
  THEN <<Op("beginPath", <<>>), Op("moveTo", <<xa, ya>>),
         Op("lineTo", <<xb, yb>>),
         StrokeOp(HiColor(At(m_lstyle, s - 1).color),
                  At(m_lstyle, s - 1).width)>>
  ELSE <<>>

drawTri(x1, y1, x2, y2, x3, y3, fc, sw) ==
  <<Op("beginPath", <<>>), Op("moveTo", <<x1, y1>>), Op("lineTo", <<x2, y2>>),
    Op("lineTo", <<x3, y3>>), Op("closePath", <<>>), FillOp(HiColor(fc))>>
  \o (IF sw > 0
      THEN Edge(sw \div 1024, x1, y1, x2, y2)
             \o Edge((sw \div 32) % 32, x2, y2, x3, y3)
             \o Edge(sw % 32, x3, y3, x1, y1)
      ELSE <<>>)

drawLine(x1, y1, x2, y2, si) ==
  <<Op("beginPath", <<>>), Op("moveTo", <<x1, y1>>), Op("lineTo", <<x2, y2>>),
    StrokeOp(HiColor(At(m_lstyle, si).color), At(m_lstyle, si).width)>>

\* the arc of a full circle
Arc(x, y, r) == Op("arc", <<x, y, r, Zero, RMul(R(2), PI)>>)

drawSphere(x, y, r, fc, si) ==
  <<Op("beginPath", <<>>), Arc(x, y, r)>>
  \o (IF fc # 65535 THEN <<FillOp(HiColor(fc))>> ELSE <<>>)
  \o (IF si # 65535
      THEN <<StrokeOp(HiColor(At(m_lstyle, si).color), At(m_lstyle, si).width)>>
      ELSE <<>>)

\* the path of a point shape of bounding-box edge sz around (x, y)
PointPath(sh, x, y, sz) ==
  LET k  == RDiv(sz, R(2))
      xm == RSub(x, k)
      xp == RAdd(x, k)
      ym == RSub(y, k)
      yp == RAdd(y, k)
      M(px, py) == Op("moveTo", <<px, py>>)
      L(px, py) == Op("lineTo", <<px, py>>)
      Z == Op("closePath", <<>>)
  IN
  CASE sh = "c" -> <<Arc(x, y, k)>>
    [] sh = "s" -> <<Op("rect", <<xm, ym, sz, sz>>)>>
    [] sh = "m" -> <<M(xm, y), L(x, ym), L(xp, y), L(x, yp), Z>>
    [] sh = "u" -> <<M(xm, yp), L(x, ym), L(xp, yp), Z>>
    [] sh = "d" -> <<M(xm, ym), L(x, yp), L(xp, ym), Z>>
    [] sh = "l" -> <<M(xm, y), L(xp, ym), L(xp, yp), Z>>
    [] sh = "r" -> <<M(xp, y), L(xm, ym), L(xm, yp), Z>>
    [] sh = "p" -> <<M(x, ym), L(x, yp), M(xm, y), L(xp, y)>>
    [] sh = "x" -> <<M(xm, ym), L(xp, yp), M(xm, yp), L(xp, ym)>>

drawPoint(x, y, psi) ==
  LET ps == At(m_pstyle, psi) IN
  <<Op("beginPath", <<>>)>>
  \o PointPath(ps.shape, x, y, ps.size)
  \o (IF indexOf(FILL_SHAPES, ps.shape) >= 0 /\ ps.fill # 65535
      THEN <<FillOp(HiColor(ps.fill))>> ELSE <<>>)
  \o (IF RGt(ps.stroke, Zero)
      THEN <<StrokeOp(HiColor(ps.ink), ps.stroke)>> ELSE <<>>)

----------------------------------------------------------------------------
(* renderScene *)

\* the world-to-camera matrix of a camera
CamMatrix(cam) ==
  rotateZ(rotateX(rotateY(translate(Matrix, RNeg(cam[1]), RNeg(cam[2]),
                                    RNeg(cam[3])),
                          RNeg(RMul(RMul(cam[4], PI), R(2)))),
                  RNeg(RDiv(RMul(cam[5], PI), R(2)))),
          RNeg(RMul(RMul(cam[6], PI), R(2))))

\* the camera-to-screen matrix of a projection on a w by h surface
ProjMatrix(proj, w, h) ==
  translate(scale(project(Matrix, ProjD(proj[1])),
                  RDiv(h, R(2)), RNeg(RDiv(h, R(2))), One),
            RDiv(w, R(2)), RDiv(h, R(2)), Zero)

\* vertex number v (from 0) of a buffer of triples
Vertex(buf, v) == <<At(buf, 3 * v), At(buf, (3 * v) + 1), At(buf, (3 * v) + 2)>>

\* the vertex pass: every vertex of a buffer through a matrix
Transform(m, buf) ==
  Flat(Tuple([v \in 1..(Len(buf) \div 3) |->
                process(m, Vertex(buf, v - 1))]), 3)

\* 0xffffffff as its high and low 16-bit words
Culled == <<65535, 65535>>

\* the variant rounds to the nearest integer instead
Quantize_Round(z, near, far) ==
  LET zc == MathMin(MathMax(z, far), near)
      zn == RDiv(RSub(zc, far), RSub(near, far))
      zq == Floor(RAdd(RMul(zn, R(65535)), Q(1, 2)))
  IN  MathMin(MathMax(zq, Zero), R(65535))[1]

\* the centroid Z quantized to 16 bits between the far and the near plane
Quantize(z, near, far) ==
  LET zc == MathMin(MathMax(z, far), near)
      zn == RDiv(RSub(zc, far), RSub(near, far))
      zq == Floor(RMul(zn, R(65535)))
  IN  MathMin(MathMax(zq, Zero), R(65535))[1]

\* the variant leaves the object index out of the key
PaintKey_NoIndex(z, i) == <<z, 0>>

\* (z << 16) | i as its high and low 16-bit words, for i below 65536
PaintKey(z, i) == <<z, i>>

\* the dot product of the first vertex with the normal of a triangle
TripleProduct(v1, v2, v3) ==
  LET e1x == RSub(v2[1], v1[1])
      e1y == RSub(v2[2], v1[2])
      e1z == RSub(v2[3], v1[3])
      e2x == RSub(v3[1], v1[1])
      e2y == RSub(v3[2], v1[2])
      e2z == RSub(v3[3], v1[3])
  IN  RAdd(RAdd(RMul(v1[1], RSub(RMul(e1y, e2z), RMul(e1z, e2y))),
                RMul(v1[2], RSub(RMul(e1z, e2x), RMul(e1x, e2z)))),
           RMul(v1[3], RSub(RMul(e1x, e2y), RMul(e1y, e2x))))

\* the backface test on the dot product; the variant keeps the other side
FrontFacing_Flipped(p) == RGt(p, Zero)

FrontFacing(p) == RLt(p, Zero)

\* near/far culling of an object by the camera Z of its vertices; the first
\* variant keeps what lies wholly before the near plane, the second what lies
\* on the near plane
AllBeforeNear_Never(zs, near) == FALSE

AllBeforeNear_Strict(zs, near) == \A n \in 1..Len(zs) : RGt(zs[n], near)

AllBeforeNear(zs, near) == \A n \in 1..Len(zs) : RGe(zs[n], near)

\* the variant keeps what lies on the far plane
AllBehindFar_Strict(zs, far) == \A n \in 1..Len(zs) : RLt(zs[n], far)

AllBehindFar(zs, far) == \A n \in 1..Len(zs) : RLe(zs[n], far)

\* the Z centroid of an object: the mean for triangles and lines, zero when
\* that is not finite
Centroid(zs) ==
  CASE Len(zs) = 3 -> Scrub(RDiv(RAdd(RAdd(zs[1], zs[2]), zs[3]), R(3)))
    [] Len(zs) = 2 -> Scrub(RDiv(RAdd(zs[1], zs[2]), R(2)))
    [] Len(zs) = 1 -> zs[1]

\* the paint key of scene object i, given the camera-space vertices
CullObject(tvx, i, near, far) ==
  LET a == At(m_scene, i * 5)
      b == At(m_scene, (i * 5) + 1)
      c == At(m_scene, (i * 5) + 2)
      zs == IF b # 65535 /\ c # 65535
            THEN <<Vertex(tvx, a)[3], Vertex(tvx, b)[3], Vertex(tvx, c)[3]>>
            ELSE IF b # 65535 /\ c = 65535
            THEN <<Vertex(tvx, a)[3], Vertex(tvx, b)[3]>>
            ELSE <<Vertex(tvx, a)[3]>>
  IN
  IF b # 65535 /\ c # 65535
       /\ ~FrontFacing(TripleProduct(Vertex(tvx, a), Vertex(tvx, b),
                                     Vertex(tvx, c)))
    THEN Culled ELSE
  IF AllBeforeNear(zs, near) THEN Culled ELSE
  IF AllBehindFar(zs, far) THEN Culled ELSE
  PaintKey(Quantize(Centroid(zs), near, far), i)

\* unsigned comparison of two paint keys
KeyLt(p, q) == p[1] < q[1] \/ (p[1] = q[1] /\ p[2] < q[2])

\* the comparison the sort orders by; the variant takes the object index for
\* the high half of the key
SortLt_ByIndex(p, q) == KeyLt(<<p[2], p[1]>>, <<q[2], q[1]>>)

SortLt(p, q) == KeyLt(p, q)

\* the keys put at the positions rank gives them
Permute(keys, rank) ==
  Tuple([r \in 1..Len(keys) |->
           keys[CHOOSE n \in 1..Len(keys) : rank[n] = r]])

\* m_paint.sort(): the keys in ascending numerical order
Sort(keys) ==
  Permute(keys, Tuple([n \in 1..Len(keys) |->
                         Cardinality({m \in 1..Len(keys) :
                                        \/ SortLt(keys[m], keys[n])
                                        \/ (keys[m] = keys[n] /\ m <= n)})]))

\* the number of subtriangles of a triangle that needs clipping; the variant
\* doubles for the near plane only
KMax_NearOnly(z1, z2, z3, near, far) ==
  IF Cardinality({n \in 1..3 : RGt(<<z1, z2, z3>>[n], near)}) = 1
  THEN 2 ELSE 1

KMax(z1, z2, z3, near, far) ==
  LET below == Cardinality({n \in 1..3 : RLt(<<z1, z2, z3>>[n], far)})
      above == Cardinality({n \in 1..3 : RGt(<<z1, z2, z3>>[n], near)})
  IN  (IF below = 1 THEN 2 ELSE 1) * (IF above = 1 THEN 2 ELSE 1)

\* a triangle <<x1, y1, z1, x2, y2, z2, x3, y3, z3>> with two vertices swapped
Swap12(v) == <<v[4], v[5], v[6], v[1], v[2], v[3], v[7], v[8], v[9]>>

Swap23(v) == <<v[1], v[2], v[3], v[7], v[8], v[9], v[4], v[5], v[6]>>

\* the bubble sort into descending Z order
SortByZ(v) ==
  LET s1 == IF RLt(v[3], v[6]) THEN Swap12(v) ELSE v
      s2 == IF RLt(s1[6], s1[9]) THEN Swap23(s1) ELSE s1
  IN  IF RLt(s2[3], s2[6]) THEN Swap12(s2) ELSE s2

\* p + t * (q - p)
Lerp(p, t, q) == RAdd(p, RMul(t, RSub(q, p)))

\* near-plane clipping of subtriangle k of a Z-sorted triangle
ClipNear(v, k, k_max, near) ==
  LET x1 == v[1]
      y1 == v[2]
      z1 == v[3]
      x2 == v[4]
      y2 == v[5]
      z2 == v[6]
      x3 == v[7]
      y3 == v[8]
      z3 == v[9]
  IN
  IF RGt(z1, near) /\ RGt(z2, near)
  THEN LET t1 == RDiv(RSub(near, z3), RSub(z1, z3))
           t2 == RDiv(RSub(near, z3), RSub(z2, z3))
       IN  <<Lerp(x3, t1, x1), Lerp(y3, t1, y1), near,
             Lerp(x3, t2, x2), Lerp(y3, t2, y2), near,
             x3, y3, z3>>
  ELSE IF RGt(z1, near)
  THEN LET t2 == RDiv(RSub(near, z2), RSub(z1, z2))
           t3 == RDiv(RSub(near, z3), RSub(z1, z3))
       IN  IF RGt(R(k), Q(k_max, 2))
           THEN <<Lerp(x2, t2, x1), Lerp(y2, t2, y1), near,
                  Lerp(x3, t3, x1), Lerp(y3, t3, y1), near,
                  x3, y3, z3>>
           ELSE <<Lerp(x2, t2, x1), Lerp(y2, t2, y1), near,
                  x2, y2, z2,
                  x3, y3, z3>>
  ELSE v

\* far-plane clipping of subtriangle k, after the near-plane clipping; where
\* only the third vertex is behind the far plane the code assigns far to y3
\* and leaves z3 as it was
ClipFar(v, k, far) ==
  LET x1 == v[1]
      y1 == v[2]
      z1 == v[3]
      x2 == v[4]
      y2 == v[5]
      z2 == v[6]
      x3 == v[7]
      y3 == v[8]
      z3 == v[9]
  IN
  IF RLt(z2, far) /\ RLt(z3, far)
  THEN LET t2 == RDiv(RSub(far, z2), RSub(z1, z2))
           t3 == RDiv(RSub(far, z3), RSub(z1, z3))
       IN  <<x1, y1, z1,
             Lerp(x2, t2, x1), Lerp(y2, t2, y1), far,
             Lerp(x3, t3, x1), Lerp(y3, t3, y1), far>>
  ELSE IF RLt(z3, far)
  THEN LET t1 == RDiv(RSub(far, z3), RSub(z1, z3))
           t2 == RDiv(RSub(far, z3), RSub(z2, z3))
       IN  IF k % 2 = 0
           THEN <<Lerp(x3, t2, x2), Lerp(y3, t2, y2), far,
                  x2, y2, z2,
                  Lerp(x3, t1, x1), far, z3>>
           ELSE <<x1, y1, z1,
                  x2, y2, z2,
                  Lerp(x3, t1, x1), far, z3>>
  ELSE v

\* subtriangle k of a triangle in camera space
Clip(v, k, k_max, near, far) ==
  ClipFar(ClipNear(SortByZ(v), k, k_max, near), k, far)

\* a record of one call of a drawing function: the scene object, the retry
\* count k, the clipped camera-space shape where there is one, and the
\* arguments after rc
Call(fn, obj, k, cam, args) ==
  [fn |-> fn, obj |-> obj, k |-> k, cam |-> cam, args |-> args]

\* the operations a recorded call sends to the rendering context
CallOps(c) ==
  CASE c.fn = "drawTri" ->
         drawTri(c.args[1], c.args[2], c.args[3], c.args[4], c.args[5],
                 c.args[6], c.args[7], c.args[8])
    [] c.fn = "drawLine" ->
         drawLine(c.args[1], c.args[2], c.args[3], c.args[4], c.args[5])
    [] c.fn = "drawSphere" ->
         drawSphere(c.args[1], c.args[2], c.args[3], c.args[4], c.args[5])
    [] c.fn = "drawPoint" -> drawPoint(c.args[1], c.args[2], c.args[3])

\* the first two coordinates of a point
XY(p) == <<p[1], p[2]>>

\* the variant draws the subtriangles of a clipped triangle without edges
SubTriangle_NoEdges(f, n, k, d, e, v) ==
  Call("drawTri", n, k, v,
       XY(process(f.mtxProj, <<v[1], v[2], v[3]>>))
         \o XY(process(f.mtxProj, <<v[4], v[5], v[6]>>))
         \o XY(process(f.mtxProj, <<v[7], v[8], v[9]>>))
         \o <<d, 0>>)

\* the call that draws the clipped camera-space triangle v
SubTriangle(f, n, k, d, e, v) ==
  Call("drawTri", n, k, v,
       XY(process(f.mtxProj, <<v[1], v[2], v[3]>>))
         \o XY(process(f.mtxProj, <<v[4], v[5], v[6]>>))
         \o XY(process(f.mtxProj, <<v[7], v[8], v[9]>>))
         \o <<d, e>>)

\* the call that draws the clipped camera-space line from e1 to e2
SubLine(f, n, k, e, e1, e2) ==
  Call("drawLine", n, k, e1 \o e2,
       XY(process(f.mtxProj, e1)) \o XY(process(f.mtxProj, e2)) \o <<e>>)

\* the point at t along the segment from v1 to v2
Along(v1, v2, t) ==
  Tuple([n1 \in 1..3 |-> RAdd(v1[n1], RMul(RSub(v2[n1], v1[n1]), t))])

\* the variant leaves the farther end where it is
ClipLine_NoFar(f, n, k, e, v1, v2) ==
  SubLine(f, n, k, e,
          Along(v1, v2, IF RGt(v1[3], f.near) THEN RDiv(RSub(f.near, v1[3]), RSub(v2[3], v1[3])) ELSE Zero),
          Along(v1, v2, One))

\* the clipped line between camera-space endpoints with v1 nearer than v2
ClipLine(f, n, k, e, v1, v2) ==
  SubLine(f, n, k, e,
          Along(v1, v2, IF RGt(v1[3], f.near)
                        THEN RDiv(RSub(f.near, v1[3]), RSub(v2[3], v1[3]))
                        ELSE Zero),
          Along(v1, v2, IF RLt(v2[3], f.far)
                        THEN RDiv(RSub(f.far, v1[3]), RSub(v2[3], v1[3]))
                        ELSE One))

\* the variant of the step for a triangle that resets k but not k_max
TriStep_KeepsMax(f, i, k, k_max, n, a, b, c, d, e) ==
  LET z1 == Vertex(f.tvx, a)[3]
      z2 == Vertex(f.tvx, b)[3]
      z3 == Vertex(f.tvx, c)[3]
  IN
  IF /\ RLe(z1, f.near) /\ RLe(z2, f.near) /\ RLe(z3, f.near)
     /\ RGe(z1, f.far) /\ RGe(z2, f.far) /\ RGe(z3, f.far)
  THEN [i |-> i, k |-> k, k_max |-> k_max,
        call |-> <<Call("drawTri", n, k, <<>>,
                        <<Vertex(f.pvx, a)[1], Vertex(f.pvx, a)[2],
                          Vertex(f.pvx, b)[1], Vertex(f.pvx, b)[2],
                          Vertex(f.pvx, c)[1], Vertex(f.pvx, c)[2], d, e>>)>>]
  ELSE IF k = 0
  THEN [i |-> i - 1, k |-> 1, k_max |-> KMax(z1, z2, z3, f.near, f.far),
        call |-> <<>>]
  ELSE IF k > k_max
  THEN [i |-> i, k |-> 0, k_max |-> k_max, call |-> <<>>]
  ELSE [i |-> i - 1, k |-> k + 1, k_max |-> k_max,
        call |-> <<SubTriangle(f, n, k, d, e,
                               Clip(Vertex(f.tvx, a) \o Vertex(f.tvx, b)
                                      \o Vertex(f.tvx, c),
                                    k, k_max, f.near, f.far))>>]

\* what one iteration of the drawing loop does for a triangle: the loop
\* index and retry counters it leaves, and the call it makes, if any
TriStep(f, i, k, k_max, n, a, b, c, d, e) ==
  LET z1 == Vertex(f.tvx, a)[3]
      z2 == Vertex(f.tvx, b)[3]
      z3 == Vertex(f.tvx, c)[3]
  IN
  IF /\ RLe(z1, f.near) /\ RLe(z2, f.near) /\ RLe(z3, f.near)
     /\ RGe(z1, f.far) /\ RGe(z2, f.far) /\ RGe(z3, f.far)
  THEN [i |-> i, k |-> k, k_max |-> k_max,
        call |-> <<Call("drawTri", n, k, <<>>,
                        <<Vertex(f.pvx, a)[1], Vertex(f.pvx, a)[2],
                          Vertex(f.pvx, b)[1], Vertex(f.pvx, b)[2],
                          Vertex(f.pvx, c)[1], Vertex(f.pvx, c)[2], d, e>>)>>]
  ELSE IF k = 0
  THEN [i |-> i - 1, k |-> 1, k_max |-> KMax(z1, z2, z3, f.near, f.far),
        call |-> <<>>]
  ELSE IF k > k_max
  THEN [i |-> i, k |-> 0, k_max |-> 0, call |-> <<>>]
  ELSE [i |-> i - 1, k |-> k + 1, k_max |-> k_max,
        call |-> <<SubTriangle(f, n, k, d, e,
                               Clip(Vertex(f.tvx, a) \o Vertex(f.tvx, b)
                                      \o Vertex(f.tvx, c),
                                    k, k_max, f.near, f.far))>>]

\* the same for a line
LineStep(f, i, k, k_max, n, a, b, e) ==
  LET z1 == Vertex(f.tvx, a)[3]
      z2 == Vertex(f.tvx, b)[3]
  IN
  IF RLe(z1, f.near) /\ RLe(z2, f.near) /\ RGe(z1, f.far) /\ RGe(z2, f.far)
  THEN [i |-> i, k |-> k, k_max |-> k_max,
        call |-> <<Call("drawLine", n, k, <<>>,
                        <<Vertex(f.pvx, a)[1], Vertex(f.pvx, a)[2],
                          Vertex(f.pvx, b)[1], Vertex(f.pvx, b)[2], e>>)>>]
  ELSE [i |-> i, k |-> k, k_max |-> k_max,
        call |-> <<IF ~RGt(z1, z2)
                   THEN ClipLine(f, n, k, e, Vertex(f.tvx, b), Vertex(f.tvx, a))
                   ELSE ClipLine(f, n, k, e, Vertex(f.tvx, a),
                                 Vertex(f.tvx, b))>>]

\* the same for a sphere
SphereStep(f, i, k, k_max, n, a, c, d, e) ==
  LET r == RMul(RDiv(At(m_rad, c), RSub(f.proj_d, Vertex(f.tvx, a)[3])),
                f.rad_mul)
  IN  [i |-> i, k |-> k, k_max |-> k_max,
       call |-> IF isFinite(r) /\ RGt(r, Zero)
                THEN <<Call("drawSphere", n, k, <<>>,
                            <<Vertex(f.pvx, a)[1], Vertex(f.pvx, a)[2],
                              r, d, e>>)>>
                ELSE <<>>]

\* the same for a point
PointStep(f, i, k, k_max, n, a, e) ==
  [i |-> i, k |-> k, k_max |-> k_max,
   call |-> <<Call("drawPoint", n, k, <<>>,
                   <<Vertex(f.pvx, a)[1], Vertex(f.pvx, a)[2], e>>)>>]

\* what one iteration of the drawing loop does for scene object n
Step(f, i, k, k_max, n, a, b, c, d, e) ==
  IF b # 65535 /\ c # 65535 THEN TriStep(f, i, k, k_max, n, a, b, c, d, e)
  ELSE IF b # 65535 /\ c = 65535 THEN LineStep(f, i, k, k_max, n, a, b, e)
  ELSE IF b = 65535 /\ c # 65535
    THEN SphereStep(f, i, k, k_max, n, a, c, d, e)
  ELSE PointStep(f, i, k, k_max, n, a, e)

\* the loop's variables and what the frame has drawn, after an iteration
\* that began at <<i, k, k_max>> and ended with the loop's i++
Drawn(st, step) ==
  [i |-> step.i + 1, k |-> step.k, k_max |-> step.k_max, done |-> FALSE,
   calls |-> st.calls \o step.call,
   ops   |-> st.ops \o (IF step.call = <<>> THEN <<>>
                         ELSE CallOps(step.call[1])),
   trace |-> Append(st.trace, <<st.i, st.k, st.k_max>>)]

\* one iteration of the drawing loop: it ends the loop at the first culled
\* paint key
Iterate(f, st) ==
  IF At(f.paint, st.i) = Culled
  THEN [st EXCEPT !.done = TRUE,
                  !.trace = Append(@, <<st.i, st.k, st.k_max>>)]
  ELSE Drawn(st, Step(f, st.i, st.k, st.k_max, At(f.paint, st.i)[2],
                      At(m_scene, At(f.paint, st.i)[2] * 5),
                      At(m_scene, (At(f.paint, st.i)[2] * 5) + 1),
                      At(m_scene, (At(f.paint, st.i)[2] * 5) + 2),
                      At(m_scene, (At(f.paint, st.i)[2] * 5) + 3),
                      At(m_scene, (At(f.paint, st.i)[2] * 5) + 4)))

\* the drawing loop run from st, where lo <= st.i, until it ends or the index
\* reaches hi; a run over a range is the run over its lower half followed by
\* the run over its upper half
RECURSIVE DrawLoop(_, _, _, _)
DrawLoop(f, lo, hi, st) ==
  IF st.done \/ ~(st.i < hi) THEN st
  ELSE IF hi - lo <= 1 THEN DrawLoop(f, lo, hi, Iterate(f, st))
  ELSE DrawLoop(f, (lo + hi) \div 2, hi,
                DrawLoop(f, lo, (lo + hi) \div 2, st))

\* the first thing drawn: the surface cleared to the background colour; the
\* variant clears to the initial colour
ClearOp_Initial(w, h) ==
  [op |-> "fillRect", a |-> <<Zero, Zero, w, h>>,
   fillStyle |-> "rgb(170, 170, 170)"]

ClearOp(w, h) ==
  [op |-> "fillRect", a |-> <<Zero, Zero, w, h>>,
   fillStyle |-> "rgb(" \o toString(m_bgcolor[1]) \o ", "
                   \o toString(m_bgcolor[2]) \o ", "
                   \o toString(m_bgcolor[3]) \o ")"]

\* the paint keys of the scene objects, sorted
PaintList(tvx, near, far) ==
  Sort(Tuple([n \in 1..(Len(m_scene) \div 5) |->
                CullObject(tvx, n - 1, near, far)]))

\* what the drawing loop works from: the scratch buffers and cached values
Cache(tvx, mtxProj, h) ==
  [tvx |-> tvx, pvx |-> Transform(mtxProj, tvx),
   paint |-> PaintList(tvx, m_proj[2], m_proj[3]),
   near |-> m_proj[2], far |-> m_proj[3], proj_d |-> ProjD(m_proj[1]),
   mtxProj |-> mtxProj, rad_mul |-> RDiv(RMul(ProjD(m_proj[1]), h), R(2))]

\* the scratch buffers a frame leaves and what it drew
Shown(f, out) ==
  [tvx |-> f.tvx, pvx |-> f.pvx, paint |-> f.paint,
   calls |-> out.calls, ops |-> out.ops, trace |-> out.trace]

Draw(f) ==
  Shown(f, DrawLoop(f, 0, Len(f.paint),
                    [i |-> 0, k |-> 0, k_max |-> 0, done |-> FALSE,
                     calls |-> <<>>, ops |-> <<>>, trace |-> <<>>]))

\* a frame on a w by h surface: nothing beyond the background when no scene
\* is loaded or the camera matrix is not finite
Frame(w, h) ==
  IF ~m_loaded \/ ~checkFinite(CamMatrix(m_cam))
  THEN [tvx |-> m_tvx, pvx |-> m_pvx, paint |-> m_paint,
        calls |-> <<>>, ops |-> <<>>, trace |-> <<>>]
  ELSE Draw(Cache(Transform(CamMatrix(m_cam), m_vtx),
                  ProjMatrix(m_proj, w, h), h))

\* the kinds of value passed for the rendering context
typeofRc(kind) == IF kind = "undefined" THEN "undefined" ELSE "object"

\* the fault location renderScene stops at, 0 when every check passes
RenderFault(kind, w, h) ==
  IF typeofRc(kind) # "object" \/ typeof(w) # "number"
       \/ typeof(h) # "number"
    THEN 100 ELSE
  IF kind # "CanvasRenderingContext2D" THEN 101 ELSE
  IF ~isFinite(Floor(w.n)) \/ ~isFinite(Floor(h.n)) THEN 102 ELSE
  IF RLt(Floor(w.n), R(2)) \/ RLt(Floor(h.n), R(2)) THEN 103 ELSE 0

\* the variant writes the camera-space vertices over the vertex table
VtxAfter_Overwrite(fr) == fr.tvx

VtxAfter(fr) == m_vtx

renderScene(kind, w, h) ==
  IF RenderFault(kind, w, h) # 0
  THEN /\ last' = Ended("renderScene", "fault",
                        fault("renderScene", RenderFault(kind, w, h)),
                        <<kind, w, h>>)
       /\ UNCHANGED <<viewVars, m_errmsg, sceneVars, rc, calls, loop, mtx>>
  ELSE \E fr \in {Frame(Floor(w.n), Floor(h.n))} :
         /\ rc' = <<ClearOp(Floor(w.n), Floor(h.n))>> \o fr.ops
         /\ calls' = fr.calls
         /\ loop' = fr.trace
         /\ m_tvx' = fr.tvx
         /\ m_pvx' = fr.pvx
         /\ m_paint' = fr.paint
         /\ m_vtx' = VtxAfter(fr)
         /\ last' = Ended("renderScene", "return", "", <<kind, w, h>>)
         /\ UNCHANGED <<viewVars, m_errmsg, m_loaded, m_rad, m_scene,
                        m_pstyle, m_lstyle, mtx>>

----------------------------------------------------------------------------
(* Initial state: the module-level declarations *)

Init ==
  /\ m_bgcolor = <<R(170), R(170), R(170)>>
  /\ m_cam = <<Zero, Zero, Zero, Zero, Zero, Zero>>
  /\ m_proj = <<Q(1, 4), Zero, R(-100)>>
  /\ m_errmsg = <<>>
  /\ m_loaded = FALSE
  /\ m_vtx = <<>>
  /\ m_tvx = <<>>
  /\ m_pvx = <<>>
  /\ m_rad = <<>>
  /\ m_scene = <<>>
  /\ m_paint = <<>>
  /\ m_pstyle = <<>>
  /\ m_lstyle = <<>>
  /\ rc = <<>>
  /\ calls = <<>>
  /\ loop = <<>>
  /\ mtx = Matrix
  /\ last = Ended("none", "", "", <<>>)

----------------------------------------------------------------------------
(* Scene files the loader is driven with: a base file with one object of    *)
(* each kind, and files that differ from it in one or two members.          *)

JInf == JNum(Infinity)

BaseVertex == Nums(<<0, 0, -1, 1, 0, -1, 0, 1, -1>>)

BaseRadius == Nums(<<1>>)

PointStyle(shape, stroke) ==
  [shape |-> JStr(shape), size |-> JInt(3), stroke |-> JInt(stroke)]

\* a copy of the properties o with key set to val, or with key removed
\* (joined with the empty function, so that the record is built at once)
With(o, key, val) ==
  [k \in DOMAIN o \cup {key} |-> IF k = key THEN val ELSE o[k]] @@ <<>>

Without(o, key) == [k \in DOMAIN o \ {key} |-> o[k]] @@ <<>>

CircleStyle == With(PointStyle("c", 0), "fill", JInt(31))

InkedCircle == With(With(PointStyle("c", 1), "fill", JInt(31)), "ink", JInt(992))

BaseLineStyle == [width |-> JInt(2), color |-> JInt(992)]

BasePStyle == JArr(<<JObj(CircleStyle)>>)

BaseLStyle == JArr(<<JObj(BaseLineStyle)>>)

\* a point, a line, a sphere and a triangle
BaseObjects == <<0, 65535, 65535, 7, 0,   0, 1, 65535, 9, 0,
                 0, 65535, 0, 31, 0,      0, 1, 2, 31, 1057>>

BaseMembers ==
  [vertex |-> BaseVertex, scene |-> Nums(BaseObjects), radius |-> BaseRadius,
   pstyle |-> BasePStyle, lstyle |-> BaseLStyle]

VertexMembers ==
  { Nums(<<0, 0, -2, 2, 0, -2, 0, 2, -2, 1, 1, 1>>),
    JArr(<<JNum(Q(1, 2)), JInt(0), JInt(-1), JInt(1), JInt(0), JInt(-1),
           JInt(0), JInt(1), JInt(-1)>>),
    JArr(<<JInt(0), JStr("0"), JInt(-1), JInt(1), JInt(0), JInt(-1),
           JInt(0), JInt(1), JInt(-1)>>),
    JArr(<<JInt(0), JInt(0), JInt(-1), JInt(1), JInf, JInt(-1),
           JInt(0), JInt(1), JInt(-1)>>),
    JArr(<<JInt(0), JInt(0), JInt(-1), JInt(1), JInf, JInt(-1),
           JInt(0), JNull, JInt(-1)>>),
    Nums(<<>>), Nums(<<0, 0, -1, 1>>), Nums(<<0, 0, -1>>), JInt(3), JNull }

SceneMembers ==
  { Nums(<<0, 65535, 65535, 7, 0>>),
    Nums(<<2, 1, 65535, 0, 0>>),
    Nums(<<1, 65535, 0, 65535, 0>>),
    Nums(<<1, 65535, 0, 32767, 65535>>),
    Nums(<<2, 1, 0, 992, 0>>),
    Nums(<<0, 1, 2, 31, 1024,  0, 2, 1, 31, 33>>),
    JArr(<<JNum(Q(3, 2)), JInt(65535), JInt(65535), JInt(0), JNum(Q(1, 2))>>),
    Nums(<<3, 65535, 65535, 0, 0>>),
    Nums(<<0, 3, 2, 31, 0>>),
    Nums(<<0, 1, 3, 31, 0>>),
    Nums(<<0, 1, 2, 32768, 0>>),
    Nums(<<0, 1, 2, 31, 32768>>),
    Nums(<<0, 1, 2, 31, 2048>>),
    Nums(<<0, 1, 2, 31, 64>>),
    Nums(<<0, 1, 2, 31, 2>>),
    Nums(<<0, 65535, 1, 31, 0>>),
    Nums(<<0, 65535, 0, 40000, 0>>),
    Nums(<<0, 65535, 0, 31, 1>>),
    Nums(<<0, 65535, 0, 65535, 65535>>),
    Nums(<<0, 65535, 65535, 0, 0,  0, 65535, 0, 65535, 65535,
           7, 1, 2, 0, 0>>),
    Nums(<<0, 3, 65535, 0, 0>>),
    Nums(<<0, 1, 65535, 0, 1>>),
    Nums(<<0, 65535, 65535, 0, 1>>),
    Nums(<<0, 65535, 65535, 0, 0,  0, 65535, 65535, 0, 1>>),
    Nums(<<0, 65535, 65535, 0, 1,  3, 65535, 65535, 0, 0>>),
    JArr(<<JInt(0), JInt(65535), JStr("x"), JInt(0), JInt(0)>>),
    JArr(<<JInt(0), JInt(65535), JInt(65535), JInf, JInt(0)>>),
    Nums(<<0, 65535, 65535, -1, 0>>),
    Nums(<<0, 65535, 65536, 0, 0>>),
    Nums(<<>>), Nums(<<0, 65535, 65535, 0>>), JStr("scene"), JNull }

RadiusMembers ==
  { JArr(<<JNum(Q(1, 2)), JInt(2)>>), Nums(<<>>),
    JArr(<<JStr("1")>>), JArr(<<JInf>>), Nums(<<0>>), Nums(<<-1>>),
    Nums(<<1, 0>>), JInt(1), JNull }

PStyleMembers ==
  { JArr(<<JObj(InkedCircle)>>),
    JArr(<<JObj(With(InkedCircle, "ink", JInt(31)))>>),
    JArr(<<JObj(With(InkedCircle, "fill", JInt(65535)))>>),
    JArr(<<JObj(With(InkedCircle, "ink", JStr("992")))>>),
    JArr(<<JObj(Without(InkedCircle, "ink"))>>),
    JArr(<<JObj(With(CircleStyle, "ink", JInt(992)))>>),
    JArr(<<JObj(With(CircleStyle, "fill", JInt(65535)))>>),
    JArr(<<JObj(With(CircleStyle, "fill", JNum(Q(63, 2))))>>),
    JArr(<<JObj(With(CircleStyle, "shape", JStr("s"))), JObj(CircleStyle)>>),
    JArr(<<JObj(PointStyle("p", 0))>>),
    JArr(<<JObj(PointStyle("x", 0))>>),
    JArr(<<JObj(With(PointStyle("p", 1), "ink", JInt(5)))>>),
    JArr(<<JObj(With(PointStyle("x", 1), "ink", JInt(5)))>>),
    JArr(<<JObj(With(PointStyle("p", 0), "fill", JInt(31)))>>),
    JArr(<<JObj(With(With(PointStyle("p", 1), "ink", JInt(5)), "fill", JInt(7)))>>),
    JArr(<<JObj(PointStyle("c", 0))>>),
    JArr(<<JObj(With(CircleStyle, "fill", JStr("31")))>>),
    JArr(<<JObj(With(CircleStyle, "fill", JInf))>>),
    JArr(<<JObj(With(CircleStyle, "fill", JInt(40000)))>>),
    JArr(<<JObj(With(CircleStyle, "fill", JInt(-1)))>>),
    JArr(<<JInt(1)>>), JArr(<<Nums(<<>>)>>), JArr(<<JNull>>),
    JArr(<<JObj(CircleStyle), JNull>>),
    JArr(<<JObj(Without(CircleStyle, "shape"))>>),
    JArr(<<JObj(Without(CircleStyle, "size"))>>),
    JArr(<<JObj(Without(CircleStyle, "stroke"))>>),
    JArr(<<JObj(With(CircleStyle, "shape", JInt(1)))>>),
    JArr(<<JObj(With(CircleStyle, "shape", JStr("cs")))>>),
    JArr(<<JObj(With(CircleStyle, "shape", JStr("q")))>>),
    JArr(<<JObj(With(CircleStyle, "size", JStr("3")))>>),
    JArr(<<JObj(With(CircleStyle, "size", JInf))>>),
    JArr(<<JObj(With(CircleStyle, "size", JInt(0)))>>),
    JArr(<<JObj(With(CircleStyle, "stroke", JStr("0")))>>),
    JArr(<<JObj(With(CircleStyle, "stroke", JInf))>>),
    JArr(<<JObj(With(CircleStyle, "stroke", JInt(-1)))>>),
    Nums(<<>>), JObj(CircleStyle), JNull }

LStyleMembers ==
  { JArr(<<JObj([width |-> JNum(Q(1, 2)), color |-> JNum(Q(63, 2))])>>),
    JArr(<<JObj(BaseLineStyle), JObj([width |-> JInt(1), color |-> JInt(0)])>>),
    JArr(<<JInt(1)>>), JArr(<<JNull>>),
    JArr(<<JObj(Without(BaseLineStyle, "width"))>>),
    JArr(<<JObj(Without(BaseLineStyle, "color"))>>),
    JArr(<<JObj(With(BaseLineStyle, "width", JStr("2")))>>),
    JArr(<<JObj(With(BaseLineStyle, "color", JStr("992")))>>),
    JArr(<<JObj(With(BaseLineStyle, "width", JInf))>>),
    JArr(<<JObj(With(BaseLineStyle, "width", JInt(0)))>>),
    JArr(<<JObj(With(BaseLineStyle, "color", JInf))>>),
    JArr(<<JObj(With(BaseLineStyle, "color", JInt(32768)))>>),
    JArr(<<JObj(With(BaseLineStyle, "color", JInt(-1)))>>),
    Nums(<<>>), JStr("lstyle"), JNull }

\* the members of the files: the base, one of vertex, scene and radius
\* replaced, one member absent, and two members replaced
FileMembers ==
  {BaseMembers}
    \cup {With(BaseMembers, "vertex", v) : v \in VertexMembers}
    \cup {With(BaseMembers, "scene", v) : v \in SceneMembers}
    \cup {With(BaseMembers, "radius", v) : v \in RadiusMembers}
    \cup {With(BaseMembers, "pstyle",
               JArr(<<JObj(InkedCircle), JObj(PointStyle("p", 0))>>)),
          With(BaseMembers, "lstyle",
               JArr(<<JObj([width |-> JNum(Q(1, 2)),
                            color |-> JNum(Q(63, 2))])>>))}
    \cup {Without(BaseMembers, k) : k \in DOMAIN BaseMembers}
    \cup {Without(With(BaseMembers, "scene", Nums(<<0, 1, 65535, 0, 0>>)), k) :
            k \in {"radius", "pstyle"}}
    \cup {With(With(BaseMembers, "scene", Nums(<<0, 1, 2, 31, 2081>>)),
               "lstyle", v) :
            v \in {JArr(<<JObj(BaseLineStyle),
                          JObj([width |-> JInt(1), color |-> JInt(0)])>>),
                   JArr(<<JObj(BaseLineStyle), JNull>>)}}
    \cup {With(With(BaseMembers, "radius", Nums(<<0>>)), "scene", v) :
            v \in {Nums(BaseObjects), Nums(<<0, 65535, 0, 65535, 65535>>),
                   Nums(<<0, 65535, 65535, 0, 1>>)}}
    \cup {With(With(BaseMembers, "lstyle", JArr(<<JInt(1)>>)), "pstyle", v) :
            v \in {BasePStyle, JArr(<<JObj(PointStyle("c", 0))>>),
                   JArr(<<JNull>>)}}

\* the arguments loadScene is called with
SceneFiles ==
  {JText(JObj(m)) : m \in FileMembers}
    \cup {JBadText, JText(JNull), JText(JInt(1)), JText(JStr("scene")),
          JText(Nums(<<1>>)), JText(JObj(<<>>)), JNull, JUndefined, JInt(1)}

\* files that differ from the base file in their point or line styles
StyleFileMembers ==
  {BaseMembers}
    \cup {With(BaseMembers, "pstyle", v) : v \in PStyleMembers}
    \cup {With(BaseMembers, "lstyle", v) : v \in LStyleMembers}

StyleFiles == {JText(JObj(m)) : m \in StyleFileMembers} \cup {JBadText, JNull}

----------------------------------------------------------------------------
(* The loader on its own: every call of loadScene *)

LoadFile == \E str \in SceneFiles : loadScene(str)

NextLoad == LoadFile

SpecLoad == Init /\ [][NextLoad]_vars

\* the same with the files that vary the styles
LoadStyleFile == \E str \in StyleFiles : loadScene(str)

NextStyle == LoadStyleFile

SpecStyle == Init /\ [][NextStyle]_vars

----------------------------------------------------------------------------
(* Rendering: a scene of triangles in both windings, a line, a sphere and a  *)
(* point at several depths, seen by a few cameras through a few projections  *)

RenderVertex ==
  Nums(<<0, 0, -1,  1, 0, -1,  0, 1, -1,  0, 0, -3,  1, 0, -5,  0, 1, -7>>)

RenderObjects ==
  <<0, 1, 2, 1057, 1025,   0, 2, 1, 1057, 0,
    0, 4, 5, 31, 0,        0, 5, 4, 31, 1024,
    3, 5, 65535, 0, 0,     3, 65535, 0, 992, 0,
    4, 65535, 65535, 0, 0>>

RenderFile ==
  JText(JObj([vertex |-> RenderVertex, scene |-> Nums(RenderObjects),
              radius |-> BaseRadius,
              pstyle |-> JArr(<<JObj(InkedCircle)>>),
              lstyle |-> BaseLStyle]))

\* the numbers handed to a setter or to renderScene, as the values of the
\* host language
CameraNumbers(cams) ==
  {<<JInt(c[1]), JInt(c[2]), JInt(c[3]), JNum(c[4]), JNum(c[5]), JNum(c[6])>> :
     c \in cams}

SizeNumbers(sizes) == {<<JNum(s[1]), JNum(s[2])>> : s \in sizes}

\* camera arguments: one unit back, behind the scene looking back at it with
\* a roll of 36 degrees, and behind the scene looking away from it
RenderCams ==
  CameraNumbers({<<0, 0, 1, Zero, Zero, Zero>>,
                 <<0, 0, -8, Q(1, 2), Zero, Q(1, 10)>>,
                 <<0, 0, -20, Zero, Zero, Zero>>})

\* projection arguments <<fov, near, far>>: planes that cut the scene
RenderProjs ==
  {<<JNum(p[1]), JInt(p[2]), JInt(p[3])>> :
     p \in {<<Q(1, 2), -2, -6>>, <<Q(1, 2), -2, -100>>, <<Q(1, 2), -2, -4>>}}

\* background colours
RenderColors == {<<JInt(0), JInt(128), JInt(255)>>}

\* surface sizes: the smallest, and one that is not a pair of integers
RenderSizes == SizeNumbers({<<R(2), R(2)>>, <<Q(1281, 2), R(480)>>})

LoadRenderFile == loadScene(RenderFile)

SetRenderCamera ==
  \E c \in RenderCams : setCamera(c[1], c[2], c[3], c[4], c[5], c[6])

SetRenderProjection == \E p \in RenderProjs : setProjection(p[1], p[2], p[3])

SetRenderColor == \E c \in RenderColors : setBGColor(c[1], c[2], c[3])

Render ==
  \E s \in RenderSizes : renderScene("CanvasRenderingContext2D", s[1], s[2])

NextRender ==
  \/ LoadRenderFile
  \/ SetRenderCamera
  \/ SetRenderProjection
  \/ SetRenderColor
  \/ Render

SpecRender == Init /\ [][NextRender]_vars

----------------------------------------------------------------------------
(* The default scene: loaded, and drawn from the initial camera and from one *)
(* raised above the grid looking straight down                               *)

DefaultCams ==
  CameraNumbers({<<0, 0, 0, Zero, Zero, Zero>>,
                 <<0, 30, 0, Zero, R(-1), Zero>>})

DefaultSizes ==
  SizeNumbers({<<R(2), R(2)>>, <<R(640), R(480)>>, <<R(480), R(640)>>})

SetDefaultCamera ==
  \E c \in DefaultCams : setCamera(c[1], c[2], c[3], c[4], c[5], c[6])

RenderDefault ==
  \E s \in DefaultSizes :
    renderScene("CanvasRenderingContext2D", s[1], s[2])

NextS1 ==
  \/ loadDefaultScene
  \/ SetDefaultCamera
  \/ SetRenderColor
  \/ RenderDefault

SpecS1 == Init /\ [][NextS1]_vars

----------------------------------------------------------------------------
(* Argument checking: the setters and renderScene called with arguments in   *)
(* and out of range                                                          *)

\* setCamera arguments: three accepted, the others each wrong in one way
CameraArgs ==
  LET ok == <<JInt(1), JInt(2), JInt(3), JNum(Q(1, 4)), JInt(-1),
              JNum(Q(3, 4))>>
  IN  {ok,
       <<JInt(0), JInt(0), JInt(0), JInt(0), JInt(1), JInt(0)>>,
       <<JInt(-5), JInt(0), JNum(Q(1, 2)), JNum(Q(1, 2)), JInt(0),
         JNum(Q(1, 10))>>,
       [ok EXCEPT ![1] = JStr("1")], [ok EXCEPT ![6] = JUndefined],
       [ok EXCEPT ![5] = JNull],
       [ok EXCEPT ![1] = JInf], [ok EXCEPT ![3] = JNum(NaN)],
       [ok EXCEPT ![2] = JNum(RNeg(Infinity))], [ok EXCEPT ![4] = JInf],
       [ok EXCEPT ![4] = JInt(1)], [ok EXCEPT ![4] = JNum(Q(-1, 4))],
       [ok EXCEPT ![5] = JNum(Q(3, 2))], [ok EXCEPT ![5] = JInt(-2)],
       [ok EXCEPT ![6] = JInt(1)], [ok EXCEPT ![6] = JNum(Q(-1, 10))]}

\* setProjection arguments <<fov, near, far>>
ProjectionArgs ==
  {<<JNum(Q(1, 2)), JInt(0), JInt(-10)>>,
   <<JNum(Q(1, 4)), JInt(2), JInt(-1)>>,
   <<JNum(Q(3, 4)), JNum(Q(2, 5)), JInt(0)>>,
   <<JStr("0.5"), JInt(0), JInt(-10)>>,
   <<JNum(Q(1, 2)), JUndefined, JInt(-10)>>,
   <<JNum(NaN), JInt(0), JInt(-10)>>,
   <<JNum(Q(1, 2)), JInt(0), JNum(RNeg(Infinity))>>,
   <<JNum(Q(1, 2)), JNum(RNeg(Infinity)), JInt(-10)>>,
   <<JInt(0), JInt(0), JInt(-10)>>,
   <<JInt(1), JInt(0), JInt(-10)>>,
   <<JNum(Q(-1, 2)), JInt(0), JInt(-10)>>,
   <<JNum(Q(1, 2)), JInt(1), JInt(0)>>,
   <<JNum(Q(1, 2)), JInt(3), JInt(0)>>,
   <<JNum(Q(3, 4)), JNum(Q(1, 2)), JInt(0)>>,
   <<JNum(Q(1, 2)), JInt(0), JInt(0)>>,
   <<JNum(Q(1, 2)), JInt(-1), JNum(Q(-1, 2))>>}

\* setBGColor arguments <<r, g, b>>
ColorArgs ==
  {<<JInt(0), JInt(0), JInt(0)>>,
   <<JInt(255), JInt(255), JInt(255)>>,
   <<JNum(Q(25, 2)), JInt(0), JNum(Q(2559, 10))>>,
   <<JStr("255"), JInt(0), JInt(0)>>,
   <<JInt(0), JInt(0), JNull>>,
   <<JInt(0), JNum(NaN), JInt(0)>>,
   <<JInf, JInt(0), JInt(0)>>,
   <<JInt(256), JInt(0), JInt(0)>>,
   <<JNum(Q(-1, 2)), JInt(0), JInt(0)>>,
   <<JInt(0), JInt(-1), JInt(0)>>,
   <<JInt(0), JInt(256), JInt(0)>>,
   <<JInt(0), JInt(0), JInt(256)>>,
   <<JInt(0), JInt(0), JNum(Q(-1, 10))>>}

\* renderScene arguments that fault, one or two for each fault location
RenderFaults ==
  {<<"undefined", JInt(4), JInt(4)>>,
   <<"CanvasRenderingContext2D", JStr("4"), JInt(4)>>,
   <<"null", JInt(4), JInt(4)>>,
   <<"Object", JInt(4), JInt(4)>>,
   <<"CanvasRenderingContext2D", JInf, JInt(4)>>,
   <<"CanvasRenderingContext2D", JInt(4), JNum(NaN)>>,
   <<"CanvasRenderingContext2D", JNum(Q(3, 2)), JInt(4)>>,
   <<"CanvasRenderingContext2D", JInt(4), JInt(1)>>}

SetCamera ==
  \E a \in CameraArgs : setCamera(a[1], a[2], a[3], a[4], a[5], a[6])

SetProjection == \E a \in ProjectionArgs : setProjection(a[1], a[2], a[3])

SetBGColor == \E a \in ColorArgs : setBGColor(a[1], a[2], a[3])

RenderFaulting == \E a \in RenderFaults : renderScene(a[1], a[2], a[3])

NextArgs ==
  \/ SetCamera
  \/ SetProjection
  \/ SetBGColor
  \/ RenderFaulting

SpecArgs == Init /\ [][NextArgs]_vars

----------------------------------------------------------------------------
(* The getters: the host changes the settings, reads them, writes into the  *)
(* arrays it was given and draws a frame with no scene loaded.              *)

ModifyValues == {R(9), NaN}

HostModify == \E k \in 1..6 : \E v \in ModifyValues : Modify(k, v)

NextGet ==
  \/ SetRenderCamera
  \/ SetRenderProjection
  \/ SetRenderColor
  \/ getCameraCall
  \/ getProjectionCall
  \/ getBGColorCall
  \/ HostModify
  \/ Render

SpecGet == Init /\ [][NextGet]_vars

----------------------------------------------------------------------------
(* Scenes of different sizes loaded one after the other and drawn           *)

\* files with 3, 4 and 6 vertices and 4, 4 and 7 objects, and one that does
\* not load
BufferFiles ==
  {JText(JObj(BaseMembers)),
   JText(JObj(With(BaseMembers, "vertex",
                   Nums(<<0, 0, -2, 2, 0, -2, 0, 2, -2, 1, 1, 1>>)))),
   RenderFile, JBadText}

LoadBufferFile == \E str \in BufferFiles : loadScene(str)

NextBuffers ==
  \/ LoadBufferFile
  \/ SetRenderProjection
  \/ Render

SpecBuffers == Init /\ [][NextBuffers]_vars

----------------------------------------------------------------------------
(* The Matrix class on its own: one Matrix object, built and changed by its  *)
(* functions, and arrays handed to process.  last.args holds the cells       *)
(* before the call, the arguments, the number of changes since the matrix    *)
(* was constructed and the function called before.                           *)

\* the longest chain of post-multiplications applied to one Matrix object
MaxOps == (1 + 1) + 1

MatrixOps == {"translate", "scale", "project"}

\* the number of changes made to the Matrix object so far
OpsDone == IF last.op \in MatrixOps \cup {"process"} THEN last.args[3] ELSE 0

MatrixCall(op, args, n) == Ended(op, "return", "", <<mtx, args, n, last.op>>)

newMatrix ==
  /\ mtx' = Matrix
  /\ last' = MatrixCall("Matrix", <<>>, 0)
  /\ UNCHANGED <<viewVars, m_errmsg, sceneVars, rc, calls, loop>>

translateCall(tx, ty, tz) ==
  /\ OpsDone < MaxOps
  /\ mtx' = translate(mtx, tx, ty, tz)
  /\ last' = MatrixCall("translate", <<tx, ty, tz>>, OpsDone + 1)
  /\ UNCHANGED <<viewVars, m_errmsg, sceneVars, rc, calls, loop>>

scaleCall(sx, sy, sz) ==
  /\ OpsDone < MaxOps
  /\ mtx' = scale(mtx, sx, sy, sz)
  /\ last' = MatrixCall("scale", <<sx, sy, sz>>, OpsDone + 1)
  /\ UNCHANGED <<viewVars, m_errmsg, sceneVars, rc, calls, loop>>

projectCall(d) ==
  /\ OpsDone < MaxOps
  /\ mtx' = project(mtx, d)
  /\ last' = MatrixCall("project", <<d>>, OpsDone + 1)
  /\ UNCHANGED <<viewVars, m_errmsg, sceneVars, rc, calls, loop>>

\* process(pa) transforms the array in place and only reads the matrix: the
\* call is recorded with the array as it was handed in and as it is left
processCall(a) ==
  /\ last' = MatrixCall("process", <<a, process(mtx, a)>>, OpsDone)
  /\ UNCHANGED <<viewVars, m_errmsg, sceneVars, rc, calls, loop, mtx>>

\* translations, among them one by nothing and two that cancel
TranslateArgs ==
  {<<One, Zero, Zero>>, <<R(-1), Q(1, 2), R(3)>>, <<Zero, Zero, Zero>>}

ScaleArgs == {<<R(2), R(2), One>>, <<Q(1, 2), R(-1), R(3)>>}

\* projection distances: two in range, and zero, which the function accepts
ProjectArgs == {One, R(2), Zero}

\* points: ordinary ones, one that projects to W = 0, and non-finite ones
ProcessArgs ==
  {<<One, R(2), R(3)>>, <<Zero, Zero, One>>, <<Infinity, Zero, Zero>>,
   <<NaN, One, One>>, <<Q(1, 2), R(-4), R(2)>>}

Translate == \E t \in TranslateArgs : translateCall(t[1], t[2], t[3])

Scale == \E t \in ScaleArgs : scaleCall(t[1], t[2], t[3])

Project == \E d \in ProjectArgs : projectCall(d)

Process == \E a \in ProcessArgs : processCall(a)

NextMatrix ==
  \/ newMatrix
  \/ Translate
  \/ Scale
  \/ Project
  \/ Process

SpecMatrix == Init /\ [][NextMatrix]_vars

----------------------------------------------------------------------------
(* Properties of loadScene and loadError, under SpecLoad *)

\* a finite number
FiniteNumber(v) == v.t = "number" /\ isFinite(v.n)

\* C1: a loadScene call that returns false leaves the loaded flag, the
\* vertex, radius, scene, point-style and line-style tables and the scratch
\* buffers exactly as they were.
C1_FailedLoadKeepsScene ==
  [][(last'.op = "loadScene" /\ last'.end = "false") => UNCHANGED sceneVars]_vars

\* a scene is loaded and the latest loadScene call returned false
C1_Witness ==
  /\ last.op = "loadScene"
  /\ last.end = "false"
  /\ m_loaded
  /\ m_errmsg # <<>>

\* the words of scene object i (from 0)
Object(i) ==
  [a |-> At(m_scene, 5 * i), b |-> At(m_scene, (5 * i) + 1),
   c |-> At(m_scene, (5 * i) + 2), d |-> At(m_scene, (5 * i) + 3),
   e |-> At(m_scene, (5 * i) + 4)]

Objects == 0..((Len(m_scene) \div 5) - 1)

IsTriangle(o) == o.b # 65535 /\ o.c # 65535

IsSphere(o) == o.b = 65535 /\ o.c # 65535

IsLine(o) == o.b # 65535 /\ o.c = 65535

IsPoint(o) == o.b = 65535 /\ o.c = 65535

\* C2: in every loaded state every scene object (a, b, c, d, e) is consistent
\* with the tables: a is a vertex; a triangle's b and c are vertices, its d
\* and e are below 0x8000 and every nonzero selector s of e has s - 1 a line
\* style; a sphere's c is a radius and its e is 0xFFFF or a line style; a
\* line's b is a vertex and its e a line style; a point's e is a point style.
C2_SceneConsistent ==
  m_loaded =>
    \A i \in Objects :
      LET o == Object(i)
          vcount == Len(m_vtx) \div 3
      IN  /\ o.a < vcount
          /\ IsTriangle(o) =>
               /\ o.b < vcount
               /\ o.c < vcount
               /\ o.d < 32768
               /\ o.e < 32768
               /\ \A s \in {o.e \div 1024, (o.e \div 32) % 32, o.e % 32} :
                    s # 0 => s - 1 < Len(m_lstyle)
          /\ IsSphere(o) =>
               /\ o.c < Len(m_rad)
               /\ (o.e = 65535 \/ o.e < Len(m_lstyle))
          /\ IsLine(o) =>
               /\ o.b < vcount
               /\ o.e < Len(m_lstyle)
          /\ IsPoint(o) => o.e < Len(m_pstyle)

\* a loaded scene with a line, a sphere and a triangle with edge selectors
C2_Witness ==
  /\ m_loaded
  /\ \E i \in Objects : IsTriangle(Object(i)) /\ Object(i).e # 0
  /\ \E i \in Objects : IsSphere(Object(i))
  /\ \E i \in Objects : IsLine(Object(i))
  /\ \E i \in Objects : IsPoint(Object(i))

FileIsObject ==
  /\ last.op = "loadScene"
  /\ last.args # <<>>
  /\ last.args[1].t = "string"
  /\ last.args[1].parse # <<>>
  /\ last.args[1].parse[1].t = "object"

\* its members
File == last.args[1].parse[1].o

\* an array member of the file, and a member that is an array or absent
ArrayMember(key) == key \in DOMAIN File /\ File[key].t = "array"

ArrayOrAbsent(key) == key \in DOMAIN File => File[key].t = "array"

\* the number of entries of a member, 0 when it is absent
CountOf(key, w) == IF key \in DOMAIN File THEN Len(File[key].a) \div w ELSE 0

\* a 16-bit integer
IsWord(v) == v.t = "number" /\ v.n[2] = 1 /\ v.n[1] >= 0 /\ v.n[1] <= 65535

\* the file is valid as far as the scene array: the optional members are
\* arrays, the vertex array holds triples of finite numbers and the scene
\* array holds five elements for each object
ValidToScene ==
  /\ FileIsObject
  /\ ArrayOrAbsent("pstyle") /\ ArrayOrAbsent("lstyle")
  /\ ArrayOrAbsent("radius")
  /\ ArrayMember("vertex") /\ ArrayMember("scene")
  /\ Len(File.vertex.a) >= 1 /\ Len(File.vertex.a) % 3 = 0
  /\ Len(File.scene.a) >= 1 /\ Len(File.scene.a) % 5 = 0
  /\ \A k \in 1..Len(File.vertex.a) : FiniteNumber(File.vertex.a[k])

\* the five elements of object i of the file are 16-bit integers
WordsAt(i) == \A k \in 1..5 : IsWord(File.scene.a[(5 * i) + k])

\* object i of the file
FileObject(i) ==
  [a |-> File.scene.a[(5 * i) + 1].n[1], b |-> File.scene.a[(5 * i) + 2].n[1],
   c |-> File.scene.a[(5 * i) + 3].n[1], d |-> File.scene.a[(5 * i) + 4].n[1],
   e |-> File.scene.a[(5 * i) + 5].n[1]]

\* object o satisfies the grammar for the counts of the file
ValidObject(o) ==
  /\ o.a < CountOf("vertex", 3)
  /\ IsTriangle(o) =>
       /\ o.b < CountOf("vertex", 3) /\ o.c < CountOf("vertex", 3)
       /\ o.d < 32768 /\ o.e < 32768
       /\ \A sel \in {o.e \div 1024, (o.e \div 32) % 32, o.e % 32} :
            sel # 0 => sel - 1 < CountOf("lstyle", 1)
  /\ IsSphere(o) =>
       /\ o.c < CountOf("radius", 1)
       /\ (o.d < 32768 \/ o.d = 65535)
       /\ (o.e < CountOf("lstyle", 1) \/ o.e = 65535)
       /\ ~(o.d = 65535 /\ o.e = 65535)
  /\ IsLine(o) => o.b < CountOf("vertex", 3) /\ o.e < CountOf("lstyle", 1)
  /\ IsPoint(o) => o.e < CountOf("pstyle", 1)

\* object i of the file is a sphere with fill 0xFFFF and style 0xFFFF and a
\* valid vertex and radius, and every object before it is valid
TransparentSphereAt(i) ==
  /\ \A j \in 0..i : WordsAt(j)
  /\ \A j \in 0..(i - 1) : ValidObject(FileObject(j))
  /\ IsSphere(FileObject(i))
  /\ FileObject(i).a < CountOf("vertex", 3)
  /\ FileObject(i).c < CountOf("radius", 1)
  /\ FileObject(i).d = 65535
  /\ FileObject(i).e = 65535

\* C13: a scene that is valid up to and including a sphere, except that the
\* sphere has fill 0xFFFF and style 0xFFFF, is rejected: loadScene returns
\* false and loadError() is "Spheres may not be fully transparent".
C13_TransparentSphere ==
  (/\ ValidToScene
   /\ \E i \in 0..(CountOf("scene", 5) - 1) : TransparentSphereAt(i)) =>
    /\ last.end = "false"
    /\ loadError = "Spheres may not be fully transparent"

\* a file whose second object is a fully transparent sphere, and whose third
\* object is not valid either, was refused while a scene was loaded
C13_Witness ==
  /\ ValidToScene
  /\ CountOf("scene", 5) = 3
  /\ TransparentSphereAt(1)
  /\ last.end = "false"
  /\ m_loaded

\* a scene file written from a store: the numbers of the vertex, radius and
\* scene tables in order, and an object for each style with the properties
\* the store keeps for it
StyleObject(p) ==
  JObj([f \in DOMAIN p |->
          CASE f = "shape" -> JStr(p[f])
            [] f \in {"size", "stroke", "width"} -> JNum(p[f])
            [] OTHER -> JInt(p[f])] @@ <<>>)

Serialize(vtx, rad, scene, ps, ls) ==
  JText(JObj([vertex |-> JArr(Tuple([k \in 1..Len(vtx) |-> JNum(vtx[k])])),
              radius |-> JArr(Tuple([k \in 1..Len(rad) |-> JNum(rad[k])])),
              scene  |-> Nums(scene),
              pstyle |-> JArr(Tuple([k \in 1..Len(ps) |->
                                       StyleObject(ps[k])])),
              lstyle |-> JArr(Tuple([k \in 1..Len(ls) |->
                                       StyleObject(ls[k])]))]))

\* what loadScene makes of the file written from the tables now loaded
Reloaded == ParseScene(Serialize(m_vtx, m_rad, m_scene, m_pstyle, m_lstyle))

\* C17: round trip: for every store a successful loadScene produced, writing
\* its vertex, radius, scene, point-style and line-style tables to a scene
\* file and loading that file succeeds and yields tables equal to the
\* original ones.
C17_RoundTrip ==
  m_loaded =>
    /\ Reloaded.st = "ok"
    /\ Reloaded.val.vtx = m_vtx
    /\ Reloaded.val.rbuf = m_rad
    /\ Reloaded.val.scene = m_scene
    /\ Reloaded.val.ps = m_pstyle
    /\ Reloaded.val.ls = m_lstyle

\* a store with a sphere, a radius and a point style that has a stroke
C17_Witness ==
  /\ m_loaded
  /\ last.end = "true"
  /\ Len(m_rad) >= 1
  /\ Len(m_lstyle) >= 1
  /\ \E i \in Objects : IsSphere(Object(i))
  /\ \E k \in 1..Len(m_pstyle) : "ink" \in DOMAIN m_pstyle[k]

----------------------------------------------------------------------------
(* Properties of the point styles, under SpecStyle *)

\* the file is valid as far as the point styles: every scene object and
\* every radius is valid
ValidToStyles ==
  /\ ValidToScene
  /\ \A j \in 0..(CountOf("scene", 5) - 1) :
       WordsAt(j) /\ ValidObject(FileObject(j))
  /\ \A k \in 1..CountOf("radius", 1) :
       FiniteNumber(File.radius.a[k]) /\ RGt(File.radius.a[k].n, Zero)

\* point style k (from 1) of the file, an object
StyleAt(k) == File.pstyle.a[k].o

IsStyle(k) == File.pstyle.a[k].t = "object"

\* the shapes that are filled
FilledShapes == {"c", "s", "m", "u", "d", "l", "r"}

\* the shape, size and stroke of point style k are valid
ValidCore(k, shapes) ==
  /\ IsStyle(k)
  /\ {"shape", "size", "stroke"} \subseteq DOMAIN StyleAt(k)
  /\ StyleAt(k).shape.t = "string"
  /\ StyleAt(k).shape.s \in shapes
  /\ FiniteNumber(StyleAt(k).size) /\ RGt(StyleAt(k).size.n, Zero)
  /\ FiniteNumber(StyleAt(k).stroke) /\ RGe(StyleAt(k).stroke.n, Zero)

\* C14: loadScene succeeds only if every point style has a fill property
\* exactly when its shape is one of c, s, m, u, d, l, r and an ink property
\* exactly when its stroke is greater than zero; an otherwise valid scene
\* whose point style of shape 'p' declares fill is rejected with "Point style
\* may not have fill for unfilled shapes".
C14_FillAndInkPresence ==
  /\ (FileIsObject /\ last.end = "true") =>
       \A k \in 1..CountOf("pstyle", 1) :
         /\ ("fill" \in DOMAIN StyleAt(k))
              <=> (StyleAt(k).shape.s \in FilledShapes)
         /\ ("ink" \in DOMAIN StyleAt(k))
              <=> RGt(StyleAt(k).stroke.n, Zero)
  /\ (/\ ValidToStyles
      /\ CountOf("pstyle", 1) >= 1
      /\ ValidCore(1, {"p"})
      /\ "fill" \in DOMAIN StyleAt(1)) =>
       /\ last.end = "false"
       /\ loadError = "Point style may not have fill for unfilled shapes"

\* a file whose style of shape 'p' has a stroke, an ink and a fill was
\* refused for its fill while a scene was loaded
C14_Witness ==
  /\ ValidToStyles
  /\ CountOf("pstyle", 1) >= 1
  /\ ValidCore(1, {"p"})
  /\ {"fill", "ink"} \subseteq DOMAIN StyleAt(1)
  /\ last.end = "false"
  /\ loadError = "Point style may not have fill for unfilled shapes"
  /\ m_loaded

\* C15: for every point style with stroke > 0 of a successfully loaded
\* scene, the stored ink colour is the floored value of the ink property of
\* that style in the file, whatever its fill property.
C15_InkFromInk ==
  (FileIsObject /\ last.end = "true") =>
    \A k \in 1..CountOf("pstyle", 1) :
      RGt(StyleAt(k).stroke.n, Zero) =>
        m_pstyle[k].ink = Floor(StyleAt(k).ink.n)[1]

\* a 15-bit colour
IsColor(v) == IsWord(v) /\ v.n[1] <= 32767

\* point style k of the file satisfies the grammar
ValidStyle(k) ==
  /\ ValidCore(k, FilledShapes \cup {"p", "x"})
  /\ ("fill" \in DOMAIN StyleAt(k)) <=> (StyleAt(k).shape.s \in FilledShapes)
  /\ "fill" \in DOMAIN StyleAt(k) =>
       (IsColor(StyleAt(k).fill) \/ StyleAt(k).fill = JInt(65535))
  /\ ("ink" \in DOMAIN StyleAt(k)) <=> RGt(StyleAt(k).stroke.n, Zero)
  /\ "ink" \in DOMAIN StyleAt(k) => IsColor(StyleAt(k).ink)

\* line style k of the file satisfies the grammar
ValidLineStyle(k) ==
  /\ File.lstyle.a[k].t = "object"
  /\ {"width", "color"} \subseteq DOMAIN File.lstyle.a[k].o
  /\ FiniteNumber(File.lstyle.a[k].o.width)
  /\ RGt(File.lstyle.a[k].o.width.n, Zero)
  /\ IsColor(File.lstyle.a[k].o.color)

\* the file satisfies the scene-file grammar
ValidFile ==
  /\ ValidToStyles
  /\ \A k \in 1..CountOf("pstyle", 1) : ValidStyle(k)
  /\ \A k \in 1..CountOf("lstyle", 1) : ValidLineStyle(k)

\* C16: loadScene returns true for every scene that satisfies the scene-file
\* grammar, a scene with a point style of shape 'p' or 'x', stroke greater
\* than zero, an ink in [0, 32767] and no fill included.
C16_GrammarAccepted == (FileIsObject /\ ValidFile) => last.end = "true"

----------------------------------------------------------------------------
(* Properties of renderScene, under SpecRender *)

\* the latest call was a renderScene that returned
Rendered == last.op = "renderScene" /\ last.end = "return"

\* the drawing calls of the latest frame made for scene object i
CallsOf(i) == {n \in 1..Len(calls) : calls[n].obj = i}

\* the camera-space Z of the vertices of a triangle
ZsOf(o) ==
  <<Vertex(m_tvx, o.a)[3], Vertex(m_tvx, o.b)[3], Vertex(m_tvx, o.c)[3]>>

\* C4: renderScene changes none of the camera, the projection, the
\* background colour, the loaded flag, the vertex, radius and scene tables
\* and the point and line style tables.
C4_RenderKeepsSettings ==
  [][last'.op = "renderScene" =>
       UNCHANGED <<m_cam, m_proj, m_bgcolor, m_loaded, m_vtx, m_rad, m_scene,
                   m_pstyle, m_lstyle>>]_vars

\* a frame of a loaded scene whose camera-space vertices differ from the
\* vertex table
C4_Witness ==
  /\ Rendered
  /\ m_loaded
  /\ calls # <<>>
  /\ m_tvx # m_vtx

\* C5: in every renderScene call with w >= 2 and h >= 2 the first surface
\* operation fills the rectangle (0, 0, w, h), for integers w and h (a size
\* that is not an integer is rounded down first), with the current background
\* colour; when no scene is loaded there is no further operation.
C5_ClearFirst ==
  Rendered =>
    /\ Len(rc) >= 1
    /\ rc[1].op = "fillRect"
    /\ rc[1].fillStyle = Rgb(m_bgcolor[1][1], m_bgcolor[2][1], m_bgcolor[3][1])
    /\ rc[1].a = <<Zero, Zero, Floor(last.args[2].n), Floor(last.args[3].n)>>
    /\ (last.args[2].n[2] = 1 /\ last.args[3].n[2] = 1) =>
         rc[1].a = <<Zero, Zero, last.args[2].n, last.args[3].n>>
    /\ ~m_loaded => Len(rc) = 1

\* a frame drawn with no scene loaded after the background colour was set
C5_Witness ==
  /\ Rendered
  /\ ~m_loaded
  /\ m_bgcolor = <<R(0), R(128), R(255)>>
  /\ last.args[2] = JInt(2)
  /\ Len(rc) = 1

\* C6: for accepted objects i and j with quantized depths z_i < z_j, every
\* drawing call of i, all its subtriangles included, precedes every drawing
\* call of j.
C6_BackToFront ==
  (Rendered /\ m_loaded) =>
    \A p \in 1..Len(m_paint) : \A q \in 1..Len(m_paint) :
      (m_paint[p] # Culled /\ m_paint[q] # Culled
         /\ m_paint[p][1] < m_paint[q][1]) =>
        \A m \in CallsOf(m_paint[p][2]) : \A n \in CallsOf(m_paint[q][2]) :
          m < n

\* a frame with the four subtriangles of a triangle between objects drawn
\* before and after it
C6_Witness ==
  /\ Rendered
  /\ \E m \in 1..Len(calls) :
       /\ calls[m].fn = "drawTri"
       /\ calls[m].k = 4
       /\ \E n \in 1..Len(calls) : n < m /\ calls[n].obj # calls[m].obj
       /\ \E n \in 1..Len(calls) : n > m /\ calls[n].obj # calls[m].obj

\* near/far culling accepts a triangle: not every vertex is at or before the
\* near plane and not every vertex is at or behind the far plane
SlabAccepts(zs) ==
  /\ ~(\A n \in 1..3 : RGe(zs[n], m_proj[2]))
  /\ ~(\A n \in 1..3 : RLe(zs[n], m_proj[3]))

\* C7: a triangle whose camera-space vertices have a positive triple product
\* v1 . ((v2 - v1) x (v3 - v1)) is never drawn; the same triangle with the
\* winding reversed, (a, c, b), passes the backface test and is drawn
\* whenever near/far culling accepts it.
C7_BackfaceCulling ==
  (Rendered /\ m_loaded) =>
    \A i \in Objects :
      (/\ IsTriangle(Object(i))
       /\ RGt(TripleProduct(Vertex(m_tvx, Object(i).a),
                            Vertex(m_tvx, Object(i).b),
                            Vertex(m_tvx, Object(i).c)), Zero)) =>
        /\ CallsOf(i) = {}
        /\ \A j \in Objects :
             (/\ Object(j).a = Object(i).a
              /\ Object(j).b = Object(i).c
              /\ Object(j).c = Object(i).b) =>
               /\ RLt(TripleProduct(Vertex(m_tvx, Object(j).a),
                                    Vertex(m_tvx, Object(j).b),
                                    Vertex(m_tvx, Object(j).c)), Zero)
               /\ SlabAccepts(ZsOf(Object(j))) => CallsOf(j) # {}

\* a frame in which a triangle is drawn and its reversed twin is not
C7_Witness ==
  /\ Rendered
  /\ m_loaded
  /\ \E i \in Objects : \E j \in Objects :
       /\ IsTriangle(Object(i))
       /\ Object(j).a = Object(i).a
       /\ Object(j).b = Object(i).c
       /\ Object(j).c = Object(i).b
       /\ CallsOf(i) = {}
       /\ CallsOf(j) # {}

\* the number of vertices of a triangle behind the far plane, before the
\* near plane
BelowFar(zs) == Cardinality({n \in 1..3 : RLt(zs[n], m_proj[3])})

AboveNear(zs) == Cardinality({n \in 1..3 : RGt(zs[n], m_proj[2])})

\* the paint list accepted object i
Accepted(i) ==
  \E p \in 1..Len(m_paint) : m_paint[p] # Culled /\ m_paint[p][2] = i

\* C8: an accepted triangle gets one drawing call when no vertex is outside
\* the slab, and otherwise exactly k_max calls, where k_max is 1, doubled if
\* exactly one Z is below far, doubled if exactly one Z is above near; with
\* one vertex above near and none below far it gets exactly two.
C8_SubtriangleCount ==
  (Rendered /\ m_loaded) =>
    \A i \in Objects :
      (IsTriangle(Object(i)) /\ Accepted(i)) =>
        LET zs == ZsOf(Object(i)) IN
        /\ (BelowFar(zs) = 0 /\ AboveNear(zs) = 0) =>
             Cardinality(CallsOf(i)) = 1
        /\ (BelowFar(zs) # 0 \/ AboveNear(zs) # 0) =>
             Cardinality(CallsOf(i)) =
               (IF BelowFar(zs) = 1 THEN 2 ELSE 1)
                 * (IF AboveNear(zs) = 1 THEN 2 ELSE 1)
        /\ (AboveNear(zs) = 1 /\ BelowFar(zs) = 0) =>
             Cardinality(CallsOf(i)) = 2
        /\ \A n \in CallsOf(i) : calls[n].fn = "drawTri"

\* a frame with a triangle drawn as four subtriangles, one drawn as two and
\* one that needed clipping drawn as one
C8_Witness ==
  /\ Rendered
  /\ m_loaded
  /\ \E i \in Objects :
       /\ IsTriangle(Object(i))
       /\ Accepted(i)
       /\ BelowFar(ZsOf(Object(i))) = 1
       /\ AboveNear(ZsOf(Object(i))) = 1
       /\ Cardinality(CallsOf(i)) = 4

\* the camera-space Z of the vertices of object o, whatever its kind
DepthsOf(o) ==
  IF IsTriangle(o) THEN ZsOf(o)
  ELSE IF IsLine(o)
       THEN <<Vertex(m_tvx, o.a)[3], Vertex(m_tvx, o.b)[3]>>
       ELSE <<Vertex(m_tvx, o.a)[3]>>

\* object o is wholly outside the slab between the far and the near plane
Outside(o) ==
  \/ \A n \in 1..Len(DepthsOf(o)) : RGe(DepthsOf(o)[n], m_proj[2])
  \/ \A n \in 1..Len(DepthsOf(o)) : RLe(DepthsOf(o)[n], m_proj[3])

\* the slots of the paint list that hold 0xFFFFFFFF
CulledSlots == {p \in 1..Len(m_paint) : m_paint[p] = Culled}

\* C18: an object wholly outside the near/far slab (a triangle with all
\* three Z >= near or all <= far, a line with both, a point or sphere whose Z
\* is not strictly between far and near) gets paint key 0xFFFFFFFF and no
\* draw call; a frame whose objects are all culled shows only the background.
C18_OutsideSlabCulled ==
  (Rendered /\ m_loaded) =>
    /\ \A i \in Objects :
         Outside(Object(i)) => (~Accepted(i) /\ CallsOf(i) = {})
    /\ Cardinality(CulledSlots)
         = Cardinality({i \in Objects : ~Accepted(i)})
    /\ (\A i \in Objects : ~Accepted(i)) => (calls = <<>> /\ Len(rc) = 1)

\* a frame with every object before the near plane, which shows only the
\* background
C18_Witness ==
  /\ Rendered
  /\ m_loaded
  /\ \A i \in Objects :
       \A n \in 1..Len(DepthsOf(Object(i))) :
         RGt(DepthsOf(Object(i))[n], m_proj[2])
  /\ Len(rc) = 1

\* the camera-space endpoints of a line, the one with the greater Z first
NearEnd(o) ==
  IF RGt(Vertex(m_tvx, o.a)[3], Vertex(m_tvx, o.b)[3])
  THEN Vertex(m_tvx, o.a) ELSE Vertex(m_tvx, o.b)

FarEnd(o) ==
  IF RGt(Vertex(m_tvx, o.a)[3], Vertex(m_tvx, o.b)[3])
  THEN Vertex(m_tvx, o.b) ELSE Vertex(m_tvx, o.a)

\* point e lies on the straight line through p and q, which differ in Z
OnLine(e, p, q) ==
  /\ RMul(RSub(e[1], p[1]), RSub(q[3], p[3]))
       = RMul(RSub(e[3], p[3]), RSub(q[1], p[1]))
  /\ RMul(RSub(e[2], p[2]), RSub(q[3], p[3]))
       = RMul(RSub(e[3], p[3]), RSub(q[2], p[2]))

\* a line with an endpoint beyond the near or the far plane
Crossing(o) ==
  /\ IsLine(o)
  /\ \/ RGt(NearEnd(o)[3], m_proj[2])
     \/ RLt(FarEnd(o)[3], m_proj[3])

\* the camera-to-screen matrix of the latest frame
FrameProj ==
  ProjMatrix(m_proj, Floor(last.args[2].n), Floor(last.args[3].n))

\* C19: an accepted line with an endpoint outside the slab is drawn once, as
\* the part of its camera-space segment inside the slab: the end beyond the
\* near plane is replaced by the point of the segment with Z = near, the end
\* beyond the far plane by the point with Z = far, an end inside the slab is
\* kept, and the two ends are projected to the screen.
C19_LineClippedToSlab ==
  (Rendered /\ m_loaded) =>
    \A i \in Objects :
      (Accepted(i) /\ Crossing(Object(i))) =>
        /\ Cardinality(CallsOf(i)) = 1
        /\ \A n \in CallsOf(i) :
             LET p == NearEnd(Object(i))
                 q == FarEnd(Object(i))
                 e1 == SubSeq(calls[n].cam, 1, 3)
                 e2 == SubSeq(calls[n].cam, 4, 6)
             IN  /\ calls[n].fn = "drawLine"
                 /\ Len(calls[n].cam) = 6
                 /\ IF RGt(p[3], m_proj[2])
                    THEN e1[3] = m_proj[2] /\ OnLine(e1, p, q)
                    ELSE e1 = p
                 /\ IF RLt(q[3], m_proj[3])
                    THEN e2[3] = m_proj[3] /\ OnLine(e2, p, q)
                    ELSE e2 = q
                 /\ SubSeq(calls[n].args, 1, 4)
                      = XY(process(FrameProj, e1))
                          \o XY(process(FrameProj, e2))

\* a frame with a line that crosses both planes, drawn from the near plane to
\* the far plane
C19_Witness ==
  /\ Rendered
  /\ m_loaded
  /\ \E i \in Objects :
       /\ Accepted(i) /\ IsLine(Object(i))
       /\ RGt(NearEnd(Object(i))[3], m_proj[2])
       /\ RLt(FarEnd(Object(i))[3], m_proj[3])
       /\ \E n \in CallsOf(i) :
            /\ calls[n].fn = "drawLine"
            /\ calls[n].cam[3] = m_proj[2]
            /\ calls[n].cam[6] = m_proj[3]

\* the Z centroid of object o: the mean of its vertices' camera-space Z
MeanZ(o) ==
  IF IsTriangle(o)
  THEN RDiv(RAdd(RAdd(DepthsOf(o)[1], DepthsOf(o)[2]), DepthsOf(o)[3]), R(3))
  ELSE IF IsLine(o)
       THEN RDiv(RAdd(DepthsOf(o)[1], DepthsOf(o)[2]), R(2))
       ELSE DepthsOf(o)[1]

\* the centroid clamped to [far, near]
ClampedZ(o) ==
  IF RLt(MeanZ(o), m_proj[3]) THEN m_proj[3]
  ELSE IF RGt(MeanZ(o), m_proj[2]) THEN m_proj[2] ELSE MeanZ(o)

\* (z_centroid - far) / (near - far) * 65535
Scaled(o) ==
  RMul(RDiv(RSub(ClampedZ(o), m_proj[3]), RSub(m_proj[2], m_proj[3])),
       R(65535))

\* the paint key written for accepted object i
KeyOf(i) ==
  m_paint[CHOOSE p \in 1..Len(m_paint) :
            m_paint[p] # Culled /\ m_paint[p][2] = i]

\* q is the greatest integer not above x
IsFloor(q, x) == RLe(R(q), x) /\ RLt(x, R(q + 1))

\* q is the integer nearest to x, halves upwards
IsRound(q, x) == IsFloor(q, RAdd(x, Q(1, 2)))

\* the slots of the paint list that hold the key of object i
SlotsOf(i) ==
  {p \in 1..Len(m_paint) : m_paint[p] # Culled /\ m_paint[p][2] = i}

\* C20 as stated: the paint key of an accepted object i is (q << 16) | i with
\* q the scaled centroid rounded to the nearest integer.
C20_Original ==
  (Rendered /\ m_loaded) =>
    \A i \in Objects :
      Accepted(i) => IsRound(KeyOf(i)[1], Scaled(Object(i)))

\* C20: the paint key written for an accepted object i is (q << 16) | i as an
\* unsigned 32-bit value, in one slot of the paint list, where q is
\* (z_centroid - far) / (near - far) * 65535 rounded down, z_centroid being
\* first clamped to [far, near]; q lies in 0..65535.
C20_PaintKey ==
  (Rendered /\ m_loaded) =>
    \A i \in Objects :
      Accepted(i) =>
        /\ Cardinality(SlotsOf(i)) = 1
        /\ KeyOf(i)[2] = i
        /\ KeyOf(i)[1] \in 0..65535
        /\ IsFloor(KeyOf(i)[1], Scaled(Object(i)))

\* a frame with an accepted object whose scaled centroid has a fraction of a
\* half or more, so that rounding down and rounding to nearest differ, and
\* one whose centroid is behind the far plane and clamped to it
C20_Witness ==
  /\ Rendered
  /\ m_loaded
  /\ \E i \in Objects :
       /\ Accepted(i)
       /\ ~IsRound(KeyOf(i)[1], Scaled(Object(i)))
  /\ \E i \in Objects :
       /\ Accepted(i)
       /\ RLt(MeanZ(Object(i)), m_proj[3])
       /\ KeyOf(i) = <<0, i>>

----------------------------------------------------------------------------
(* The default scene, under SpecS1 *)

\* scenario S1: the default scene drawn with the camera at the origin, field
\* of view 0.25, near 0, far -100 and background (170, 170, 170)
S1 ==
  /\ Rendered
  /\ m_loaded
  /\ m_cam = <<Zero, Zero, Zero, Zero, Zero, Zero>>
  /\ m_proj = <<Q(1, 4), Zero, R(-100)>>
  /\ m_bgcolor = <<R(170), R(170), R(170)>>

\* the surface cleared to (170, 170, 170)
S1Cleared ==
  /\ rc[1].op = "fillRect"
  /\ rc[1].fillStyle = "rgb(170, 170, 170)"

\* the grid points of the default scene, and its Y axis
GridPoints == 0..119

YAxis == (Len(m_scene) \div 5) - 1

\* the Z of the grid point object i
GridZ(i) == Vertex(m_vtx, Object(i).a)[3]

\* C9 as the specification states it: in scenario S1 the surface is cleared
\* to (170, 170, 170), all 120 grid-point circles are drawn, the Y-axis line
\* is drawn and nothing is drawn for the centre node.
C9_Original ==
  S1 =>
    /\ S1Cleared
    /\ \A i \in GridPoints :
         \E n \in CallsOf(i) : calls[n].fn = "drawPoint"
    /\ \E n \in CallsOf(YAxis) : calls[n].fn = "drawLine"
    /\ Len(calls) = 121

\* C9: in scenario S1 the surface is cleared to (170, 170, 170) and exactly
\* the 55 grid points with Z below 0 are drawn, one circle each; the 65 grid
\* points with Z at or above the near plane and the Y-axis line, whose ends
\* both have Z = 0, are culled; nothing is drawn for the centre node.
C9_DefaultScene ==
  S1 =>
    /\ S1Cleared
    /\ \A i \in GridPoints :
         /\ RLt(GridZ(i), Zero) =>
              /\ Cardinality(CallsOf(i)) = 1
              /\ \A n \in CallsOf(i) : calls[n].fn = "drawPoint"
         /\ RGe(GridZ(i), Zero) => CallsOf(i) = {}
    /\ CallsOf(YAxis) = {}
    /\ Len(calls) = 55
    /\ Cardinality({i \in GridPoints : RLt(GridZ(i), Zero)}) = 55
    /\ \A i \in GridPoints : Object(i).a # 60

\* scenario S1 has been drawn on a 640 by 480 surface
C9_Witness ==
  /\ S1
  /\ last.args[2] = JInt(640)
  /\ last.args[3] = JInt(480)
  /\ Len(calls) = 55
  /\ Len(m_scene) = 605

----------------------------------------------------------------------------
(* The settings, under SpecArgs *)

\* C10: in every reachable state the camera X, Y, Z are finite; yaw and roll
\* are in [0, 1) and pitch in [-1, 1]; fov is in (0, 1) and
\* far < near < 1 / tan(fov * pi / 2); each background channel is an integer
\* in [0, 255].
C10_SettingsInRange ==
  /\ \A n \in 1..3 : isFinite(m_cam[n])
  /\ RGe(m_cam[4], Zero) /\ RLt(m_cam[4], One)
  /\ RGe(m_cam[5], R(-1)) /\ RLe(m_cam[5], One)
  /\ RGe(m_cam[6], Zero) /\ RLt(m_cam[6], One)
  /\ RGt(m_proj[1], Zero) /\ RLt(m_proj[1], One)
  /\ RLt(m_proj[3], m_proj[2])
  /\ RLt(m_proj[2], RDiv(One, Tan(RDiv(RMul(m_proj[1], PI), R(2)))))
  /\ \A n \in 1..3 :
       /\ m_bgcolor[n][2] = 1
       /\ m_bgcolor[n][1] >= 0
       /\ m_bgcolor[n][1] <= 255

\* every setting has been changed and the latest call faulted
C10_Witness ==
  /\ last.end = "fault"
  /\ last.op \in {"setCamera", "setProjection", "setBGColor"}
  /\ m_cam # <<Zero, Zero, Zero, Zero, Zero, Zero>>
  /\ m_proj # <<Q(1, 4), Zero, R(-100)>>
  /\ m_bgcolor # <<R(170), R(170), R(170)>>

\* valid arguments of the three setters
ValidCamera(a) ==
  /\ \A n \in 1..6 : FiniteNumber(a[n])
  /\ RGe(a[4].n, Zero) /\ RLt(a[4].n, One)
  /\ RGe(a[5].n, R(-1)) /\ RLe(a[5].n, One)
  /\ RGe(a[6].n, Zero) /\ RLt(a[6].n, One)

ValidProjection(a) ==
  /\ \A n \in 1..3 : FiniteNumber(a[n])
  /\ RGt(a[1].n, Zero) /\ RLt(a[1].n, One)
  /\ RLt(a[3].n, a[2].n)
  /\ RLt(a[2].n, RDiv(One, Tan(RDiv(RMul(a[1].n, PI), R(2)))))

ValidColor(a) ==
  /\ \A n \in 1..3 : FiniteNumber(a[n])
  /\ \A n \in 1..3 : RGe(Floor(a[n].n), Zero) /\ RLe(Floor(a[n].n), R(255))

ValidSetting(op, a) ==
  CASE op = "setCamera" -> ValidCamera(a)
    [] op = "setProjection" -> ValidProjection(a)
    [] op = "setBGColor" -> ValidColor(a)

Setters == {"setCamera", "setProjection", "setBGColor"}

\* C11: a setCamera, setProjection or setBGColor call with an argument of the
\* wrong type, not finite or out of range faults, and a setter call that
\* faults leaves the camera, the projection and the background colour as
\* they were.
C11_InvalidSetterFaults ==
  [][last'.op \in Setters =>
       /\ ~ValidSetting(last'.op, last'.args) => last'.end = "fault"
       /\ last'.end = "fault" => UNCHANGED <<m_cam, m_proj, m_bgcolor>>]_vars

\* a projection with far = near was refused after every setting was changed
C11_Witness ==
  /\ last.op = "setProjection"
  /\ last.end = "fault"
  /\ last.reason = "dla_main:setProjection:140"
  /\ m_cam # <<Zero, Zero, Zero, Zero, Zero, Zero>>
  /\ m_proj # <<Q(1, 4), Zero, R(-100)>>
  /\ m_bgcolor # <<R(170), R(170), R(170)>>

----------------------------------------------------------------------------
(* Properties of the getters, under SpecGet *)

\* C12: the getters return new arrays: an assignment to an element of an
\* array a getter returned changes none of the camera, the projection and the
\* background colour, so every later getter call returns the values the
\* setters stored and a later renderScene call clears to the stored colour.
C12_GettersCopy ==
  [][/\ last'.op = "modify" => UNCHANGED <<m_cam, m_proj, m_bgcolor>>
     /\ last'.op = "getCamera" => last'.args[1].a = m_cam'
     /\ last'.op = "getProjection" => last'.args[1].a = m_proj'
     /\ last'.op = "getBGColor" => last'.args[1].a = m_bgcolor'
     /\ (last.op = "modify" /\ last'.op = "renderScene") =>
          rc'[1].fillStyle
            = Rgb(m_bgcolor[1][1], m_bgcolor[2][1], m_bgcolor[3][1])]_vars

\* the host holds a camera array it has written into, which now differs from
\* the camera that was set
C12_Witness ==
  /\ last.op = "modify"
  /\ Len(last.args[1].a) = 6
  /\ last.args[1].a # m_cam
  /\ m_cam # <<Zero, Zero, Zero, Zero, Zero, Zero>>

----------------------------------------------------------------------------
(* Properties of the Matrix class, under SpecMatrix *)

\* two translate calls in a row, the first applied to the cells m
TwoTranslations == last.op = "translate" /\ last'.op = "translate"

\* the cells after one translation by the sum of the two
Summed ==
  translate(last.args[1],
            RAdd(last.args[2][1], last'.args[2][1]),
            RAdd(last.args[2][2], last'.args[2][2]),
            RAdd(last.args[2][3], last'.args[2][3]))

Homogeneous == last.args[2][1] \o <<One>>

\* column j of the row vector times the cells recorded with the call
Product(j) ==
  RAdd(RAdd(RAdd(RMul(Homogeneous[1], last.args[1][j]),
                 RMul(Homogeneous[2], last.args[1][4 + j])),
            RMul(Homogeneous[3], last.args[1][8 + j])),
       RMul(Homogeneous[4], last.args[1][12 + j]))

\* the array as the latest process call left it
Processed == last.args[2][2]

\* C26: process leaves an array of three finite numbers: (0, 0, 0) when the
\* computed W is 0, otherwise the row-vector product divided by W with every
\* non-finite component replaced by 0; the 16 cells of the matrix are
\* unchanged by the call.
C26_ProcessResult ==
  last.op = "process" =>
    /\ Len(Processed) = 3
    /\ \A j \in 1..3 : isFinite(Processed[j])
    /\ Product(4) = Zero => Processed = <<Zero, Zero, Zero>>
    /\ Product(4) # Zero =>
         \A j \in 1..3 :
           Processed[j] = IF isFinite(RDiv(Product(j), Product(4)))
                          THEN RDiv(Product(j), Product(4))
                          ELSE Zero
    /\ mtx = last.args[1]

\* a point with W = 0 under a projecting matrix, and so the origin although
\* its products are not all zero
C26_Witness ==
  /\ last.op = "process"
  /\ Product(4) = Zero
  /\ \E j \in 1..3 : Product(j) # Zero
  /\ Processed = <<Zero, Zero, Zero>>

----------------------------------------------------------------------------
(* Properties of the colours of a frame, under SpecRender *)

\* bit n (0 the lowest) of c
Bit(c, n) == (c \div (2 ^ n)) % 2

\* the 8-bit channel with bits c4 c3 c2 c1 c0 c4 c3 c2
Widened(c) ==
  (128 * Bit(c, 4)) + (64 * Bit(c, 3)) + (32 * Bit(c, 2)) + (16 * Bit(c, 1))
    + (8 * Bit(c, 0)) + (4 * Bit(c, 4)) + (2 * Bit(c, 3)) + Bit(c, 2)

\* the style string of the three widened 5-bit fields of a 15-bit colour w
Decoded(w) ==
  "rgb(" \o ToString(Widened(w \div 1024)) \o ", "
         \o ToString(Widened((w \div 32) % 32)) \o ", "
         \o ToString(Widened(w % 32)) \o ")"

\* the selectors of a triangle's style word that choose a line style
Selectors(e) == {e \div 1024, (e \div 32) % 32, e % 32} \ {0}

\* the packed colours the calls of the latest frame fill with
FillColours ==
  {Object(calls[n].obj).d :
     n \in {k \in 1..Len(calls) :
              \/ calls[k].fn = "drawTri"
              \/ (calls[k].fn = "drawSphere"
                    /\ Object(calls[k].obj).d # 65535)}}
  \cup
  {At(m_pstyle, Object(calls[n].obj).e).fill :
     n \in {k \in 1..Len(calls) :
              /\ calls[k].fn = "drawPoint"
              /\ At(m_pstyle, Object(calls[k].obj).e).shape
                   \notin {"p", "x"}
              /\ At(m_pstyle, Object(calls[k].obj).e).fill # 65535}}

\* the packed colours the calls of the latest frame stroke with
StrokeColours ==
  UNION {{At(m_lstyle, sel - 1).color : sel \in Selectors(Object(calls[n].obj).e)} :
           n \in {k \in 1..Len(calls) : calls[k].fn = "drawTri"}}
  \cup
  {At(m_lstyle, Object(calls[n].obj).e).color :
     n \in {k \in 1..Len(calls) :
              \/ calls[k].fn = "drawLine"
              \/ (calls[k].fn = "drawSphere"
                    /\ Object(calls[k].obj).e # 65535)}}
  \cup
  {At(m_pstyle, Object(calls[n].obj).e).ink :
     n \in {k \in 1..Len(calls) :
              /\ calls[k].fn = "drawPoint"
              /\ RGt(At(m_pstyle, Object(calls[k].obj).e).stroke, Zero)}}

\* the fill and stroke styles the canvas received after the clearing
FillStyles ==
  {rc[k].fillStyle : k \in {j \in 2..Len(rc) : rc[j].op = "fill"}}

StrokeStyles ==
  {rc[k].strokeStyle : k \in {j \in 2..Len(rc) : rc[j].op = "stroke"}}

\* C22: every colour channel of a triangle fill, sphere fill, point fill,
\* point ink and line colour reaches the canvas as expand(c) =
\* (c << 3) | (c >> 2) of its 5-bit field, the same in all five drawing
\* paths; expand(0) = 0, expand(31) = 255 and every result is in 0..255.
C22_ChannelExpansion ==
  /\ \A c \in 0..31 : Expand(c) = Widened(c) /\ Expand(c) \in 0..255
  /\ Expand(0) = 0
  /\ Expand(31) = 255
  /\ (Rendered /\ m_loaded) =>
       /\ FillStyles = {Decoded(w) : w \in FillColours}
       /\ StrokeStyles = {Decoded(w) : w \in StrokeColours}

\* a frame with a triangle with stroked edges, a line, a sphere and a point
\* that is both filled and inked
C22_Witness ==
  /\ Rendered
  /\ m_loaded
  /\ \A fn \in {"drawTri", "drawLine", "drawSphere", "drawPoint"} :
       \E n \in 1..Len(calls) : calls[n].fn = fn
  /\ Cardinality(FillStyles) >= 3
  /\ "rgb(0, 255, 0)" \in StrokeStyles

----------------------------------------------------------------------------
(* Properties of triangle clipping, under SpecRender *)

\* the camera-space vertices of a triangle in descending Z order
Sorted(o) ==
  SortByZ(Vertex(m_tvx, o.a) \o Vertex(m_tvx, o.b) \o Vertex(m_tvx, o.c))

\* vertex n (1 to 3) of a triangle <<x1, y1, z1, x2, y2, z2, x3, y3, z3>>
Corner(v, n) == <<v[(3 * n) - 2], v[(3 * n) - 1], v[3 * n]>>

\* a triangle with only its lowest vertex behind the far plane and none
\* before the near plane
FarSplit(o) ==
  /\ IsTriangle(o)
  /\ BelowFar(ZsOf(o)) = 1
  /\ AboveNear(ZsOf(o)) = 0

\* C23: where only the lowest vertex of the Z-sorted triangle is below far,
\* every emitted subtriangle has its bottom vertex on edge v1->v3 at the far
\* plane: its Z is far and its X and Y are the interpolated values.
C23_FarSplitOnPlane ==
  (Rendered /\ m_loaded) =>
    \A i \in Objects :
      (Accepted(i) /\ FarSplit(Object(i))) =>
        \A n \in CallsOf(i) :
          /\ Corner(calls[n].cam, 3)[3] = m_proj[3]
          /\ OnLine(Corner(calls[n].cam, 3), Corner(Sorted(Object(i)), 1),
                    Corner(Sorted(Object(i)), 3))

\* a triangle whose two lowest vertices are both behind the far plane
TwoBehindFar(o) == IsTriangle(o) /\ BelowFar(ZsOf(o)) = 2

\* C24: for an accepted triangle whose two lowest camera-space Zs are both
\* below far, every emission k in 1..k_max pulls both of those vertices up to
\* the far plane, also the second emission of a triangle with exactly one
\* vertex above near.
C24_BothPulledToFar ==
  (Rendered /\ m_loaded) =>
    \A i \in Objects :
      (Accepted(i) /\ TwoBehindFar(Object(i))) =>
        /\ {calls[n].k : n \in CallsOf(i)}
             = 1..KMax(ZsOf(Object(i))[1], ZsOf(Object(i))[2],
                       ZsOf(Object(i))[3], m_proj[2], m_proj[3])
        /\ \A n \in CallsOf(i) :
             /\ Corner(calls[n].cam, 2)[3] = m_proj[3]
             /\ Corner(calls[n].cam, 3)[3] = m_proj[3]
             /\ RGt(Corner(calls[n].cam, 1)[3], m_proj[3])

\* the calls of the latest frame that draw a subtriangle of a clipped triangle
ClippedCalls == {n \in 1..Len(calls) : calls[n].fn = "drawTri" /\ calls[n].k > 0}

\* C25: every subtriangle emitted for a clipped triangle is drawn with the
\* fill colour and the three-selector style word of the scene object;
\* clipping changes neither.
C25_ClippingKeepsStyle ==
  (Rendered /\ m_loaded) =>
    \A n \in ClippedCalls :
      /\ calls[n].args[7] = Object(calls[n].obj).d
      /\ calls[n].args[8] = Object(calls[n].obj).e

\* a frame with a triangle with a stroked edge drawn as two subtriangles
C25_Witness ==
  /\ Rendered
  /\ m_loaded
  /\ \E i \in Objects :
       /\ Object(i).e # 0
       /\ Cardinality(CallsOf(i) \cap ClippedCalls) >= 2

----------------------------------------------------------------------------
(* Properties of the scratch buffers, under SpecBuffers *)

BufferLengths == <<Len(m_tvx), Len(m_pvx), Len(m_paint)>>

\* C27: whenever a scene is loaded, the camera-space and the projected vertex
\* buffer have the length of the vertex table and the paint-key buffer has
\* one entry for each scene object; renderScene never changes these lengths.
C27_BufferLengths ==
  /\ [](m_loaded =>
          /\ Len(m_tvx) = Len(m_vtx)
          /\ Len(m_pvx) = Len(m_vtx)
          /\ 5 * Len(m_paint) = Len(m_scene))
  /\ [][last'.op = "renderScene" => BufferLengths' = BufferLengths]_vars

\* a frame of the scene with six vertices and seven objects, drawn after a
\* later file was refused
C27_Witness ==
  /\ Rendered
  /\ m_loaded
  /\ m_errmsg # <<>>
  /\ BufferLengths = <<18, 18, 7>>
  /\ calls # <<>>

----------------------------------------------------------------------------
(* Properties of the drawing loop, under SpecRender *)

\* the scene object whose key is at position p (from 0) of the sorted list
ObjectAt(p) == Object(m_paint[p + 1][2])

\* the key at position p is that of a triangle that needs clipping
ClippedAt(p) ==
  /\ IsTriangle(ObjectAt(p))
  /\ BelowFar(ZsOf(ObjectAt(p))) + AboveNear(ZsOf(ObjectAt(p))) > 0

\* 1, doubled for exactly one vertex behind far, doubled for exactly one
\* before near
Emissions(p) ==
  (IF BelowFar(ZsOf(ObjectAt(p))) = 1 THEN 2 ELSE 1)
    * (IF AboveNear(ZsOf(ObjectAt(p))) = 1 THEN 2 ELSE 1)

\* the iterations of the latest frame's drawing loop made at index p
IterationsAt(p) == {n \in 1..Len(loop) : loop[n][1] = p}

\* the positions the loop has to visit: up to the first 0xFFFFFFFF, that one
\* included, or all of them
Visited ==
  {p \in 0..(Len(m_paint) - 1) :
     \A q \in 0..(p - 1) : m_paint[q + 1] # Culled}

\* C28: the drawing loop of a frame ends.  It visits the sorted keys in
\* order up to the first 0xFFFFFFFF or the end of the list, spends one
\* iteration on a key that needs no clipping and exactly k_max + 2 on a
\* clipped triangle (one to set k_max, k_max emissions with k = 1..k_max and
\* one to reset), and arrives at every key with k = 0 and k_max = 0.
C28_LoopShape ==
  (Rendered /\ m_loaded) =>
    /\ {loop[n][1] : n \in 1..Len(loop)} = Visited
    /\ \A n \in 1..(Len(loop) - 1) : loop[n][1] <= loop[n + 1][1]
    /\ \A p \in Visited :
         LET first == CHOOSE n \in IterationsAt(p) :
                        \A m \in IterationsAt(p) : n <= m
         IN  /\ loop[first] = <<p, 0, 0>>
             /\ IF m_paint[p + 1] # Culled /\ ClippedAt(p)
                THEN /\ Cardinality(IterationsAt(p)) = Emissions(p) + 2
                     /\ \A k \in 1..(Emissions(p) + 1) :
                          loop[first + k] = <<p, k, Emissions(p)>>
                ELSE Cardinality(IterationsAt(p)) = 1

\* a frame that spends six iterations on a triangle drawn as four
\* subtriangles, goes on to further keys and stops at a 0xFFFFFFFF key
C28_Witness ==
  /\ Rendered
  /\ m_loaded
  /\ \E p \in Visited :
       /\ Cardinality(IterationsAt(p)) = 6
       /\ p + 1 \in Visited
       /\ m_paint[p + 2] # Culled
  /\ \E p \in Visited : m_paint[p + 1] = Culled

\* the objects the latest frame made a drawing call for
Dispatched == {calls[n].obj : n \in 1..Len(calls)}

\* C29: the cull pass of a frame writes to slot i either 0xFFFFFFFF or a key
\* whose low 16 bits are i, and the key of an accepted object is never
\* 0xFFFFFFFF (indices are at most 65534); after the sort every accepted
\* object is once before the first 0xFFFFFFFF, and exactly the accepted
\* objects are dispatched.
C29_KeysAndDispatch ==
  /\ PaintKey(65535, 65534) # Culled
  /\ Len(m_scene) \div 5 <= 65535
  /\ (Rendered /\ m_loaded) =>
       /\ Len(m_paint) = Cardinality(Objects)
       /\ \A p \in 1..Len(m_paint) :
            m_paint[p] # Culled => m_paint[p][2] \in Objects
       /\ \A i \in Objects : Cardinality(SlotsOf(i)) <= 1
       /\ \A p \in CulledSlots : \A q \in p..Len(m_paint) : q \in CulledSlots
       /\ Cardinality(CulledSlots)
            = Cardinality({i \in Objects : SlotsOf(i) = {}})
       /\ \A i \in Objects :
            \E key \in {CullObject(m_tvx, i, m_proj[2], m_proj[3])} :
              /\ key = Culled \/ key[2] = i
              /\ key = Culled <=> SlotsOf(i) = {}
              /\ \A p \in SlotsOf(i) : m_paint[p] = key
       /\ Dispatched = {i \in Objects : SlotsOf(i) # {}}

\* a frame in which some objects are culled, object 0 among them, and
\* several are drawn, one of them as more than one subtriangle
C29_Witness ==
  /\ Rendered
  /\ m_loaded
  /\ SlotsOf(0) = {}
  /\ Cardinality(CulledSlots) >= 2
  /\ Cardinality(Dispatched) >= 3
  /\ Len(calls) > Cardinality(Dispatched)

(***************************************************************************)
(* Properties of the clipping divisions, under SpecRender                  *)
(***************************************************************************)

\* the divisors of the near-plane stage for a Z-sorted triangle v
NearDivisors(v) ==
  IF RGt(v[3], m_proj[2]) /\ RGt(v[6], m_proj[2])
  THEN {RSub(v[3], v[9]), RSub(v[6], v[9])}
  ELSE IF RGt(v[3], m_proj[2])
  THEN {RSub(v[3], v[6]), RSub(v[3], v[9])}
  ELSE {}

\* the divisors of the far-plane stage for the triangle w the near-plane
\* stage left
FarDivisors(w) ==
  IF RLt(w[6], m_proj[3]) /\ RLt(w[9], m_proj[3])
  THEN {RSub(w[3], w[6]), RSub(w[3], w[9])}
  ELSE IF RLt(w[9], m_proj[3])
  THEN {RSub(w[3], w[9]), RSub(w[6], w[9])}
  ELSE {}

\* the divisors used for emission k of the clipped triangle o
TriDivisors(o, k) ==
  NearDivisors(Sorted(o))
    \cup FarDivisors(ClipNear(Sorted(o), k,
                              KMax(ZsOf(o)[1], ZsOf(o)[2], ZsOf(o)[3],
                                   m_proj[2], m_proj[3]),
                              m_proj[2]))

\* a triangle with a vertex outside the slab
Straddling(o) ==
  IsTriangle(o) /\ (BelowFar(ZsOf(o)) # 0 \/ AboveNear(ZsOf(o)) # 0)

\* C30: no clipping interpolation divides by zero: for every accepted line
\* with an endpoint outside the slab the divisor z2 - z1 is not zero, for
\* every emission of every accepted triangle with a vertex outside the slab
\* each divisor of the near and far stages is not zero, and every
\* interpolated camera-space coordinate handed on is a finite number.
C30_NoZeroDivisor ==
  (Rendered /\ m_loaded) =>
    \A i \in Objects :
      Accepted(i) =>
        /\ Crossing(Object(i)) =>
             /\ RSub(FarEnd(Object(i))[3], NearEnd(Object(i))[3]) # Zero
             /\ RGt(NearEnd(Object(i))[3], FarEnd(Object(i))[3])
        /\ Straddling(Object(i)) =>
             \A k \in 1..KMax(ZsOf(Object(i))[1], ZsOf(Object(i))[2],
                              ZsOf(Object(i))[3], m_proj[2], m_proj[3]) :
               \A d \in TriDivisors(Object(i), k) :
                 isFinite(d) /\ RGt(d, Zero)
        /\ \A n \in CallsOf(i) :
             \A c \in 1..Len(calls[n].cam) : isFinite(calls[n].cam[c])

\* a frame that clips a line and clips triangles at the near plane and at the
\* far plane, with two and with four divisions for one emission
C30_Witness ==
  /\ Rendered
  /\ m_loaded
  /\ \E i \in Objects : Accepted(i) /\ Crossing(Object(i))
  /\ \E i \in Objects :
       /\ Accepted(i)
       /\ Straddling(Object(i))
       /\ AboveNear(ZsOf(Object(i))) # 0
       /\ BelowFar(ZsOf(Object(i))) # 0
       /\ Cardinality(CallsOf(i)) >= 2
       /\ \E k \in 1..Cardinality(CallsOf(i)) :
            Cardinality(TriDivisors(Object(i), k)) >= 3

====
